---- MODULE Spec2Model ----
(***************************************************************************)
(* Model of the math-nlp-parser service: the /parse dispatcher             *)
(* (app/main.py), the rule-based PatternMatcher (app/pattern_matcher.py),  *)
(* the keyword-based NLPProcessor (app/nlp_processor.py) and the shared    *)
(* TextNormalizer (app/utils.py).                                          *)
(*                                                                         *)
(* A text is a sequence of tokens.  A token is a maximal run of            *)
(* non-whitespace characters, written as a string; consecutive tokens are  *)
(* separated by one blank.  The token WS stands for surplus whitespace     *)
(* (leading, trailing, or a run of more than one blank).  The characters   *)
(* of a token are given by Spell, so that the places where the code's      *)
(* regular expressions and substring tests look inside a word (an          *)
(* unanchored pattern start, a captured first letter, `keyword in text`)   *)
(* are computed from the spelling.  "=", "->" and "^" are written as       *)
(* tokens of their own (the spelling "i = 1", "x -> 0" of a bound).        *)
(* Confidence values are in hundredths (90 is 0.9).                        *)
(***************************************************************************)
EXTENDS Integers, Sequences, FiniteSets, TLC

VARIABLES
    nlp,        \* NLPProcessor.nlp: TRUE when the spaCy model loaded at construction
    pc,         \* position of the request being served
    endpoint,   \* "parse", "pattern_only" or "nlp_only" ("" when idle)
    query,      \* query.text as received
    text,       \* the local variable `text` of the function that is running
    idx,        \* PatternMatcher.parse: index of the rule the for-loop is at
    match,      \* PatternMatcher.parse: the local variable `match`
    operation,  \* NLPProcessor.parse: the value of _extract_operation
    result,     \* the local variable `result`
    by,         \* the handler or sub-parser that produced `result`
    calls,      \* the tier entry points called while serving this request, in order
    response,   \* the HTTP outcome of the request
    renorm,     \* normalize applied to an already normalized text
    tables,     \* for each table built at construction and shared by every call,
                \* the entries written to it since
    thread,     \* the parse calls running concurrently on the shared instances
    variable    \* the value returned by NLPProcessor._extract_variable

vars == <<nlp, pc, endpoint, query, text, idx, match, operation, result, by, calls,
          response, renorm, tables, thread, variable>>

-----------------------------------------------------------------------------
(* Bounds of the model *)

\* longest raw text fed to TextNormalizer.normalize in SpecNorm
MaxNormLen == 3
\* most operator phrases appended to the operand of an input expression
MaxOps == 2
\* most phrases in a text given to _extract_variable in SpecVar
MaxVarLen == 2

-----------------------------------------------------------------------------
(* Values *)

WS == " "

\* Python's None, and an exception leaving a function
None == [none |-> TRUE]
Raised == [raised |-> "Exception"]

\* a shared table as a call finds it: the table as constructed, followed by
\* the entries written to it since
Now(table, written) == table \o written

\* the value of an expression, computed once before it is used
Only(S) == CHOOSE r \in S : TRUE

RECURSIVE Flat(_)
Flat(ss) == IF ss = <<>> THEN <<>> ELSE Head(ss) \o Flat(Tail(ss))

RECURSIVE Join(_)
Join(cs) == IF cs = <<>> THEN "" ELSE Head(cs) \o Join(Tail(cs))

\* the characters of a token
Spell(w) == [i \in 1..Len(w) |-> SubSeq(w, i, i)]

Letters == {"a", "b", "c", "d", "e", "f", "g", "h", "i", "j", "k", "l", "m",
            "n", "o", "p", "q", "r", "s", "t", "u", "v", "w", "x", "y", "z"}
Digits == {"0", "1", "2", "3", "4", "5", "6", "7", "8", "9"}

\* [a-zA-Z] on lower-cased text, and [a-zA-Z0-9]
IsLetter(c) == c \in Letters
IsAlnum(c) == c \in Letters \cup Digits

\* the token ends with / starts with / contains the characters of word
EndsWith(w, word) ==
    LET s == Spell(w)  k == Spell(word)
    IN  Len(s) >= Len(k) /\ SubSeq(s, Len(s) - Len(k) + 1, Len(s)) = k

StartsWith(w, word) ==
    LET s == Spell(w)  k == Spell(word)
    IN  Len(s) >= Len(k) /\ SubSeq(s, 1, Len(k)) = k

Contains(w, word) ==
    LET s == Spell(w)  k == Spell(word)
    IN  \E i \in 1..Len(s) : i + Len(k) - 1 <= Len(s) /\ SubSeq(s, i, i + Len(k) - 1) = k

-----------------------------------------------------------------------------
(* app/utils.py: TextNormalizer *)

\* str.lower() of a token
UpperCase == <<"I", "X">>
LowerCase == <<"i", "x">>
LowerChar(c) ==
    IF \E k \in 1..Len(UpperCase) : UpperCase[k] = c
    THEN LowerCase[CHOOSE k \in 1..Len(UpperCase) : UpperCase[k] = c]
    ELSE c
lower(t) == [k \in 1..Len(t) |->
               LET s == Spell(t[k]) IN Join([j \in 1..Len(s) |-> LowerChar(s[j])])]

\* str.strip(): leading and trailing whitespace removed
RECURSIVE LStrip(_)
LStrip(t) == IF t # <<>> /\ Head(t) = WS THEN LStrip(Tail(t)) ELSE t
RECURSIVE RStrip(_)
RStrip(t) == IF t # <<>> /\ t[Len(t)] = WS THEN RStrip(SubSeq(t, 1, Len(t) - 1)) ELSE t
strip(t) == RStrip(LStrip(t))

\* self.typo_corrections, in insertion order
typo_corrections == <<
    <<"square", "squared">>, <<"cube", "cubed">>, <<"sqaure", "squared">>,
    <<"sqared", "squared">>, <<"intergrate", "integrate">>,
    <<"integrat", "integrate">>, <<"derivate", "derivative">>,
    <<"diferentiate", "differentiate">>, <<"diferential", "differential">>,
    <<"summaton", "summation">>, <<"sumation", "summation">> >>

\* a synonym table whose 'int' entry stops one letter short
synonyms_typo == <<
    <<"diff", "derivative">>, <<"deriv", "derivative">>, <<"d/dx", "derivative">>,
    <<"int", "integrat">>, <<"sigma", "sum">> >>

\* self.synonyms, in insertion order.  The sixth key of the source holds an
\* upper-case non-ASCII letter and never occurs in lower-cased text.
synonyms == <<
    <<"diff", "derivative">>, <<"deriv", "derivative">>, <<"d/dx", "derivative">>,
    <<"int", "integrate">>, <<"sigma", "sum">> >>

\* self.normalizations, in insertion order: the tokens a pattern rewrites and
\* what each becomes.  r'\bw\.r\.t\.?\b' takes the final dot only when a word
\* character follows it, so the token "w.r.t." keeps its dot.
normalizations == <<
    [from |-> "wrt",    to |-> <<"with", "respect", "to">>],
    [from |-> "w.r.t",  to |-> <<"with", "respect", "to">>],
    [from |-> "w.r.t.", to |-> <<"with", "respect", "to.">>],
    [from |-> "rt",     to |-> <<"with", "respect", "to">>],
    [from |-> "^",      to |-> <<"to", "the", "power", "of">>] >>

\* re.sub(r'\b' + key + r'\b', value, text) for each key in turn
RECURSIVE SubWords(_, _)
SubWords(t, table) ==
    IF table = <<>> THEN t
    ELSE Only({SubWords(x, Tail(table)) :
                 x \in {[k \in 1..Len(t) |->
                           IF t[k] = table[1][1] THEN table[1][2] ELSE t[k]]}})

\* re.sub(pattern, replacement, text) for each pattern in turn
RECURSIVE Expand(_, _)
Expand(t, table) ==
    IF table = <<>> THEN t
    ELSE Only({Expand(x, Tail(table)) :
                 x \in {Flat([k \in 1..Len(t) |->
                           IF t[k] = table[1].from THEN table[1].to ELSE <<t[k]>>])}})

\* re.sub(r'\s+', ' ', text).strip()
collapse(t) == SelectSeq(t, LAMBDA w : w # WS)

normalize(t) ==
    collapse(Expand(SubWords(SubWords(strip(lower(t)),
                                      Now(typo_corrections, tables.typo_corrections)),
                             Now(synonyms, tables.synonyms)),
                    Now(normalizations, tables.normalizations)))

-----------------------------------------------------------------------------
(* app/pattern_matcher.py: re.search of the rule patterns on a normalized   *)
(* text.  A match is [found |-> TRUE, g |-> <<group(1), group(2), ...>>];   *)
(* a captured expression is a sequence of tokens, a captured letter a       *)
(* character.                                                               *)

NoMatch == [found |-> FALSE]

Min(S) == CHOOSE x \in S : \A y \in S : x <= y

FirstChar(w) == Head(Spell(w))

\* the tokens t[p], t[p+1], ... are the words ws
WordsAt(t, p, ws) ==
    /\ p >= 1
    /\ p + Len(ws) - 1 <= Len(t)
    /\ \A k \in 1..Len(ws) : t[p + k - 1] = ws[k]

\* a pattern's leading words start at token p.  re.search is not anchored, so
\* the first word may be the end of a longer token; the words after it follow \s+.
PrefixAt(t, p, firsts, rest) ==
    /\ p <= Len(t)
    /\ \E f \in firsts : EndsWith(t[p], f)
    /\ WordsAt(t, p + 1, rest)

\* the first alternative of seps that stands at token q: its length, or 0
SepLen(t, q, seps) ==
    LET hit == {k \in 1..Len(seps) : WordsAt(t, q, seps[k])}
    IN  IF hit = {} THEN 0 ELSE Len(seps[Min(hit)])

WithRespectTo == <<"with", "respect", "to">>

\* (?:with\s+respect\s+to|wrt)\s+([a-zA-Z]) at token q: the letter, or ""
WrtVar(t, q, seps) ==
    LET n == SepLen(t, q, seps)
    IN  IF n > 0 /\ q + n <= Len(t) /\ IsLetter(FirstChar(t[q + n]))
        THEN FirstChar(t[q + n]) ELSE ""

\* d([a-zA-Z]) at the start of token q: the letter, or ""
DVar(t, q) ==
    LET s == Spell(t[q])
    IN  IF Len(s) >= 2 /\ s[1] = "d" /\ IsLetter(s[2]) THEN s[2] ELSE ""

\* (?:d|with\s+respect\s+to)\s*([a-zA-Z]) at token q: the letter, or ""
DOrWrtVar(t, q) ==
    LET s == Spell(t[q])
        nextLetter(k) == IF k <= Len(t) /\ IsLetter(FirstChar(t[k]))
                         THEN FirstChar(t[k]) ELSE ""
    IN  IF s[1] = "d" /\ Len(s) >= 2 /\ IsLetter(s[2]) THEN s[2]
        ELSE IF s = <<"d">> /\ nextLetter(q + 1) # "" THEN nextLetter(q + 1)
        ELSE IF WordsAt(t, q, <<"with", "respect">>) /\ q + 2 <= Len(t)
                /\ StartsWith(t[q + 2], "to")
             THEN LET u == Spell(t[q + 2])
                  IN  IF Len(u) >= 3 THEN (IF IsLetter(u[3]) THEN u[3] ELSE "")
                      ELSE nextLetter(q + 3)
        ELSE ""

WrtSeps == <<WithRespectTo, <<"wrt">>>>
\* with the third alternative w\.?r\.?t\.? of the first integral pattern
WrtSeps3 == <<WithRespectTo, <<"wrt">>, <<"w.r.t">>, <<"w.r.t.">>>>

TailVar(t, q, kind) ==
    CASE kind = "wrt"  -> WrtVar(t, q, WrtSeps)
      [] kind = "wrt3" -> WrtVar(t, q, WrtSeps3)
      [] kind = "d"    -> DVar(t, q)
      [] kind = "dwrt" -> DOrWrtVar(t, q)

\* <leading words>\s+(.+?)\s+<tail>: the leftmost start, then the shortest
\* expression; g = <<expression, letter>>
SearchLazy(t, firsts, rest, kind) ==
    LET n == 1 + Len(rest)
        Ends(p) == {q \in (p + n + 1)..Len(t) : TailVar(t, q, kind) # ""}
        Starts == {p \in 1..Len(t) : PrefixAt(t, p, firsts, rest) /\ Ends(p) # {}}
    IN  IF Starts = {} THEN NoMatch
        ELSE LET p == Min(Starts)
                 q == Min(Ends(p))
             IN  [found |-> TRUE,
                  g |-> <<SubSeq(t, p + n, q - 1), TailVar(t, q, kind)>>]

\* (?:of\s+)?(.+) on the tokens that remain
OptOfRest(r) == IF Len(r) >= 2 /\ r[1] = "of" THEN Tail(r) ELSE r

\* d/d([a-zA-Z])\s+(?:of\s+)?(.+)
SearchShort(t) ==
    LET isDD(w) == LET s == Spell(w)
                   IN  /\ Len(s) >= 4
                       /\ SubSeq(s, Len(s) - 3, Len(s) - 1) = <<"d", "/", "d">>
                       /\ IsLetter(s[Len(s)])
        Starts == {p \in 1..(Len(t) - 1) : isDD(t[p])}
    IN  IF Starts = {} THEN NoMatch
        ELSE LET p == Min(Starts)
                 s == Spell(t[p])
             IN  [found |-> TRUE,
                  g |-> <<s[Len(s)], OptOfRest(SubSeq(t, p + 1, Len(t)))>>]

IsAlnumToken(w) == \A k \in 1..Len(Spell(w)) : IsAlnum(Spell(w)[k])
IsLetterToken(w) == Len(Spell(w)) = 1 /\ IsLetter(FirstChar(w))

\* <word>\s+(?:from|of)\s+([a-zA-Z])\s*(?:equals|=)\s*([a-zA-Z0-9]+)\s+to\s+
\* ([a-zA-Z0-9]+)\s+(?:of\s+)?(.+)
SearchBounds(t, word) ==
    LET at(p) == /\ p + 7 <= Len(t)
                 /\ EndsWith(t[p], word)
                 /\ t[p + 1] \in {"from", "of"}
                 /\ IsLetterToken(t[p + 2])
                 /\ t[p + 3] \in {"equals", "="}
                 /\ IsAlnumToken(t[p + 4])
                 /\ t[p + 5] = "to"
                 /\ IsAlnumToken(t[p + 6])
        Starts == {p \in 1..Len(t) : at(p)}
    IN  IF Starts = {} THEN NoMatch
        ELSE LET p == Min(Starts)
             IN  [found |-> TRUE,
                  g |-> <<t[p + 2], t[p + 4], t[p + 6],
                          OptOfRest(SubSeq(t, p + 7, Len(t)))>>]

\* limit\s+as\s+([a-zA-Z])\s+(?:approaches|goes\s+to|tends\s+to)\s+(.+?)\s+of\s+(.+)
SearchLimitAs(t) ==
    LET verbs == <<<<"approaches">>, <<"goes", "to">>, <<"tends", "to">>>>
        head(p) == /\ p + 2 <= Len(t)
                   /\ EndsWith(t[p], "limit")
                   /\ t[p + 1] = "as"
                   /\ IsLetterToken(t[p + 2])
                   /\ SepLen(t, p + 3, verbs) > 0
        first(p) == p + 3 + SepLen(t, p + 3, verbs)
        Ofs(p) == {q \in (first(p) + 1)..(Len(t) - 1) : t[q] = "of"}
        Starts == {p \in 1..Len(t) : head(p) /\ Ofs(p) # {}}
    IN  IF Starts = {} THEN NoMatch
        ELSE LET p == Min(Starts)
                 q == Min(Ofs(p))
             IN  [found |-> TRUE,
                  g |-> <<t[p + 2], SubSeq(t, first(p), q - 1),
                          SubSeq(t, q + 1, Len(t))>>]

\* lim\s+([a-zA-Z])\s*->\s*(.+?)\s+(?:of\s+)?(.+)
SearchLimArrow(t) ==
    LET at(p) == /\ p + 4 <= Len(t)
                 /\ EndsWith(t[p], "lim")
                 /\ IsLetterToken(t[p + 1])
                 /\ t[p + 2] = "->"
        Starts == {p \in 1..Len(t) : at(p)}
    IN  IF Starts = {} THEN NoMatch
        ELSE LET p == Min(Starts)
             IN  [found |-> TRUE,
                  g |-> <<t[p + 1], <<t[p + 3]>>,
                          OptOfRest(SubSeq(t, p + 4, Len(t)))>>]

\* (.+?)\s+(?:divided\s+by|over)\s+(.+)
SearchFraction(t) ==
    LET seps == <<<<"divided", "by">>, <<"over">>>>
        Cuts == {q \in 2..Len(t) :
                    SepLen(t, q, seps) > 0 /\ q + SepLen(t, q, seps) <= Len(t)}
    IN  IF Cuts = {} THEN NoMatch
        ELSE LET q == Min(Cuts)
             IN  [found |-> TRUE,
                  g |-> <<SubSeq(t, 1, q - 1),
                          SubSeq(t, q + SepLen(t, q, seps), Len(t))>>]

\* self.patterns: the regex of rule k searched in t
Search(k, t) ==
    CASE k = 1  -> SearchLazy(t, {"integrate"}, <<>>, "wrt3")
      [] k = 2  -> SearchLazy(t, {"integral"}, <<"of">>, "dwrt")
      [] k = 3  -> SearchLazy(t, {"integrate"}, <<>>, "d")
      [] k = 4  -> SearchLazy(t, {"int"}, <<>>, "d")
      [] k = 5  -> SearchLazy(t, {"derivative"}, <<"of">>, "wrt")
      [] k = 6  -> SearchLazy(t, {"differentiate"}, <<>>, "wrt")
      [] k = 7  -> SearchLazy(t, {"deriv", "derivative"}, <<"of">>, "wrt")
      [] k = 8  -> SearchShort(t)
      [] k = 9  -> SearchLazy(t, {"partial"}, <<"derivative", "of">>, "wrt")
      [] k = 10 -> SearchLazy(t, {"partial"}, <<>>, "wrt")
      [] k = 11 -> SearchBounds(t, "sum")
      [] k = 12 -> SearchBounds(t, "summation")
      [] k = 13 -> SearchBounds(t, "sigma")
      [] k = 14 -> SearchBounds(t, "product")
      [] k = 15 -> SearchLimitAs(t)
      [] k = 16 -> SearchLimArrow(t)
      [] k = 17 -> SearchFraction(t)

\* self.patterns: the handler of rule k
HandlerOf(k) ==
    CASE k \in 1..4   -> "_handle_integral"
      [] k \in 5..7   -> "_handle_derivative"
      [] k = 8        -> "_handle_derivative_short"
      [] k \in 9..10  -> "_handle_partial"
      [] k \in 11..13 -> "_handle_summation"
      [] k = 14       -> "_handle_product"
      [] k \in 15..16 -> "_handle_limit"
      [] k = 17       -> "_handle_fraction"

NumPatterns == 17

\* self.patterns as a list: the handler of each rule, in table order
patterns == [k \in 1..NumPatterns |-> HandlerOf(k)]

-----------------------------------------------------------------------------
(* Expression fragments.  While an expression is rewritten for sympify it   *)
(* is a sequence of blank-separated pieces, each piece a sequence of        *)
(* characters, so that a rewrite can glue pieces together (x^2, sin(x)).    *)

SpellAll(t) == [k \in 1..Len(t) |-> Spell(t[k])]

LastChar(piece) == piece[Len(piece)]

\* re.sub over the pieces of e, left to right, without overlap: where
\* Hit(e, i) > 0 pieces i .. i+Hit(e,i)-1 are replaced by Out(e, i)
Rewrite(e, Hit(_, _), Out(_, _)) ==
    LET sub(x) ==
            LET f[i \in 1..(Len(x) + 1)] ==
                    IF i > Len(x) THEN <<>>
                    ELSE IF Hit(x, i) > 0 THEN Out(x, i) \o f[i + Hit(x, i)]
                    ELSE <<x[i]>> \o f[i + 1]
            IN  f[1]
    IN  Only({sub(x) : x \in {e}})

\* re.sub(r'\b' + word + r'\b', symbol, expr): word is one or two words
ReplaceWord(e, word, symbol) ==
    LET w == SpellAll(word)
        hit(x, i) == IF i + Len(w) - 1 <= Len(x) /\ SubSeq(x, i, i + Len(w) - 1) = w
                     THEN Len(w) ELSE 0
        out(x, i) == <<symbol>>
    IN  Rewrite(e, hit, out)

\* self.word_to_symbol, in insertion order
word_to_symbol == <<
    [word |-> <<"plus">>,             symbol |-> <<"+">>],
    [word |-> <<"minus">>,            symbol |-> <<"-">>],
    [word |-> <<"times">>,            symbol |-> <<"*">>],
    [word |-> <<"multiply">>,         symbol |-> <<"*">>],
    [word |-> <<"multiplied", "by">>, symbol |-> <<"*">>],
    [word |-> <<"divided", "by">>,    symbol |-> <<"/">>],
    [word |-> <<"divide", "by">>,     symbol |-> <<"/">>],
    [word |-> <<"over">>,             symbol |-> <<"/">>],
    [word |-> <<"squared">>,          symbol |-> <<"^", "2">>],
    [word |-> <<"square">>,           symbol |-> <<"^", "2">>],
    [word |-> <<"cubed">>,            symbol |-> <<"^", "3">>],
    [word |-> <<"cube">>,             symbol |-> <<"^", "3">>],
    [word |-> <<"square", "root">>,   symbol |-> <<"s", "q", "r", "t">>],
    [word |-> <<"cube", "root">>,     symbol |-> <<"c", "b", "r", "t">>],
    [word |-> <<"sqrt">>,             symbol |-> <<"s", "q", "r", "t">>] >>

RECURSIVE ReplaceWords(_, _)
ReplaceWords(e, table) ==
    IF table = <<>> THEN e
    ELSE Only({ReplaceWords(x, Tail(table)) :
                 x \in {ReplaceWord(e, table[1].word, table[1].symbol)}})

HasPrefix(piece, k) == Len(piece) >= Len(k) /\ SubSeq(piece, 1, Len(k)) = k

\* ([a-zA-Z0-9]+)\s+(?:w1|w2) -> \1 sym : the piece before is glued to sym and
\* to what follows the word in its piece
GluePower(e, w1, w2, sym) ==
    LET a == Spell(w1)  b == Spell(w2)
        wordLen(piece) == IF HasPrefix(piece, a) THEN Len(a)
                          ELSE IF HasPrefix(piece, b) THEN Len(b) ELSE 0
        hit(x, i) == IF i + 1 <= Len(x) /\ IsAlnum(LastChar(x[i])) /\ wordLen(x[i + 1]) > 0
                     THEN 2 ELSE 0
        out(x, i) == <<x[i] \o sym
                       \o SubSeq(x[i + 1], wordLen(x[i + 1]) + 1, Len(x[i + 1]))>>
    IN  Rewrite(e, hit, out)

\* the leading digits of a piece
RECURSIVE DigitRun(_)
DigitRun(piece) ==
    IF piece # <<>> /\ Head(piece) \in Digits THEN <<Head(piece)>> \o DigitRun(Tail(piece))
    ELSE <<>>

Ordinals == {<<"t", "h">>, <<"r", "d">>, <<"n", "d">>, <<"s", "t">>}

\* ([a-zA-Z0-9]+)\s+to\s+the\s+(?:power\s+of\s+)?(\d+)<ordinal> -> \1 pow \2 ;
\* ordinal is (?:th|rd|nd|st)? in the pattern tier and absent in the NLP tier
GlueToThe(e, pow, ordinal) ==
    LET to == Spell("to")  the == Spell("the")  power == Spell("power")  of == Spell("of")
        numAt(x, i) ==
            IF i + 3 <= Len(x) /\ x[i + 1] = to /\ x[i + 2] = the
            THEN IF i + 5 <= Len(x) /\ x[i + 3] = power /\ x[i + 4] = of
                    /\ DigitRun(x[i + 5]) # <<>>
                 THEN i + 5
                 ELSE IF DigitRun(x[i + 3]) # <<>> THEN i + 3 ELSE 0
            ELSE 0
        hit(x, i) == IF IsAlnum(LastChar(x[i])) /\ numAt(x, i) > 0
                     THEN numAt(x, i) - i + 1 ELSE 0
        out(x, i) ==
            LET num == x[numAt(x, i)]
                d == DigitRun(num)
                after == SubSeq(num, Len(d) + 1, Len(num))
                rest == IF ordinal /\ Len(after) >= 2 /\ SubSeq(after, 1, 2) \in Ordinals
                        THEN SubSeq(after, 3, Len(after)) ELSE after
            IN  <<x[i] \o pow \o d \o rest>>
    IN  Rewrite(e, hit, out)

\* the leading run of [a-zA-Z0-9] of a piece
RECURSIVE AlnumRun(_)
AlnumRun(piece) ==
    IF piece # <<>> /\ IsAlnum(Head(piece)) THEN <<Head(piece)>> \o AlnumRun(Tail(piece))
    ELSE <<>>

\* \bfunc\s+([a-zA-Z0-9]+) -> func(\1)
CallFunc(e, func) ==
    LET f == Spell(func)
        isFunc(piece) ==
            /\ Len(piece) >= Len(f)
            /\ SubSeq(piece, Len(piece) - Len(f) + 1, Len(piece)) = f
            /\ (Len(piece) > Len(f) => ~IsAlnum(piece[Len(piece) - Len(f)]))
        hit(x, i) == IF i + 1 <= Len(x) /\ isFunc(x[i]) /\ AlnumRun(x[i + 1]) # <<>>
                     THEN 2 ELSE 0
        out(x, i) == LET arg == AlnumRun(x[i + 1])
                     IN  <<x[i] \o <<"(">> \o arg \o <<")">>
                           \o SubSeq(x[i + 1], Len(arg) + 1, Len(x[i + 1]))>>
    IN  Rewrite(e, hit, out)

RECURSIVE CallFuncs(_, _)
CallFuncs(e, funcs) ==
    IF funcs = <<>> THEN e
    ELSE Only({CallFuncs(x, Tail(funcs)) : x \in {CallFunc(e, funcs[1])}})

\* self.trig_functions
trig_functions == <<"sin", "cos", "tan", "sec", "csc", "cot", "sinh", "cosh", "tanh",
                    "arcsin", "arccos", "arctan", "asin", "acos", "atan">>

\* PatternMatcher._preprocess_expression
_preprocess_expression(e) ==
    LET e1 == ReplaceWords(e, Now(word_to_symbol, tables.word_to_symbol))
        e2 == GluePower(e1, "squared", "square", <<"^", "2">>)
        e3 == GluePower(e2, "cubed", "cube", <<"^", "3">>)
        e4 == GlueToThe(e3, <<"^">>, TRUE)
        e5 == CallFuncs(e4, Now(trig_functions, tables.trig_functions))
    IN  CallFuncs(e5, <<"log", "ln", "exp">>)

-----------------------------------------------------------------------------
(* sympy.sympify on an expression string, as far as the handlers depend on  *)
(* it: it returns an expression when the string is a well-formed infix      *)
(* expression and raises otherwise.  sympify's default transformations do   *)
(* not insert multiplication between adjacent operands, turn "^" into "**", *)
(* and leave Python keywords and the names of sympy's own functions as they *)
(* are (a function name is an operand only when it is called, or when it is *)
(* the whole string).  Simplification and rendering are not modelled: the   *)
(* rendered expression is the expression string.                            *)

\* the pieces joined by blanks: the string handed to sympify
ExprText(e) ==
    IF e = <<>> THEN <<>>
    ELSE e[1] \o Flat([k \in 1..(Len(e) - 1) |-> <<" ">> \o e[k + 1]])

ExprString(e) == Join(ExprText(e))

PyKeywords == {"and", "as", "assert", "break", "class", "continue", "def", "del",
               "elif", "else", "except", "finally", "for", "from", "global", "if",
               "import", "in", "is", "lambda", "nonlocal", "not", "or", "pass",
               "raise", "return", "try", "while", "with", "yield"}

SympyCallables == {"integrate", "diff", "limit", "product", "summation", "sum",
                   "sin", "cos", "tan", "sec", "csc", "cot", "sinh", "cosh", "tanh",
                   "asin", "acos", "atan", "log", "ln", "exp", "sqrt", "cbrt", "root"}

NameClass(name) ==
    IF name \in PyKeywords THEN "kw"
    ELSE IF name \in SympyCallables THEN "fn" ELSE "id"

\* the lexical classes of the string's tokens
Lex(cs) ==
    LET f[i \in 1..(Len(cs) + 1)] ==
            IF i > Len(cs) THEN <<>>
            ELSE LET c == cs[i]
                     rest == SubSeq(cs, i, Len(cs))
                     two == i + 1 <= Len(cs) /\ cs[i + 1] = c
                 IN  IF c = " " THEN f[i + 1]
                     ELSE IF IsLetter(c)
                     THEN <<NameClass(Join(AlnumRun(rest)))>> \o f[i + Len(AlnumRun(rest))]
                     ELSE IF c \in Digits
                     THEN <<"num">> \o f[i + Len(DigitRun(rest))]
                     ELSE IF c \in {"*", "/"}
                     THEN <<"bin">> \o f[IF two THEN i + 2 ELSE i + 1]
                     ELSE IF c = "^" THEN <<"bin">> \o f[i + 1]
                     ELSE IF c \in {"+", "-"} THEN <<"sign">> \o f[i + 1]
                     ELSE IF c = "(" THEN <<"lp">> \o f[i + 1]
                     ELSE IF c = ")" THEN <<"rp">> \o f[i + 1]
                     ELSE <<"err">> \o f[i + 1]
    IN  f[1]

\* the token classes lx[i..] complete an expression; mode is "operand" (an
\* operand is due), "after" (an operand has ended) or "fn" (a function name
\* has been read), depth the number of open parentheses
RECURSIVE WellFormed(_, _, _, _)
WellFormed(lx, i, mode, depth) ==
    IF i > Len(lx) THEN (mode = "after" /\ depth = 0) \/ (mode = "fn" /\ Len(lx) = 1)
    ELSE LET c == lx[i]
         IN  CASE mode = "operand" ->
                    IF c \in {"id", "num"} THEN WellFormed(lx, i + 1, "after", depth)
                    ELSE IF c = "fn" THEN WellFormed(lx, i + 1, "fn", depth)
                    ELSE IF c = "sign" THEN WellFormed(lx, i + 1, "operand", depth)
                    ELSE IF c = "lp" THEN WellFormed(lx, i + 1, "operand", depth + 1)
                    ELSE FALSE
               [] mode = "after" ->
                    IF c \in {"bin", "sign"} THEN WellFormed(lx, i + 1, "operand", depth)
                    ELSE IF c = "rp" /\ depth > 0 THEN WellFormed(lx, i + 1, "after", depth - 1)
                    ELSE FALSE
               [] mode = "fn" ->
                    IF c = "lp" THEN WellFormed(lx, i + 1, "operand", depth + 1)
                    ELSE FALSE

\* a sympify that returns a value for the empty string
sympifyEmpty(e) == e = <<>> \/ WellFormed(Lex(ExprText(e)), 1, "operand", 0)

\* sp.sympify(expr_str) returns (TRUE) or raises (FALSE)
sympify(e) == WellFormed(Lex(ExprText(e)), 1, "operand", 0)

-----------------------------------------------------------------------------
(* app/pattern_matcher.py: the handlers.  latex and plain_text are the      *)
(* parts of the handler's f-string; a handler returns a result or None.     *)

\* (\d+|[a-zA-Z](?:\^\d+)?)\s+([a-zA-Z]) -> \1*\2 and, in the NLP tier,
\* ([a-zA-Z](?:\*\*\d+)?)\s+([a-zA-Z]) -> \1*\2 : the blank between two pieces
\* becomes "*" when the left piece ends with a match of the first group that
\* does not reuse the letter the previous match consumed
RECURSIVE TrailingDigits(_)
TrailingDigits(piece) ==
    IF piece # <<>> /\ LastChar(piece) \in Digits
    THEN TrailingDigits(SubSeq(piece, 1, Len(piece) - 1)) + 1 ELSE 0

LeftStart(piece, digitsAlone, pow) ==
    LET n == Len(piece)
        d == TrailingDigits(piece)
        at == n - d - Len(pow)
    IN  IF IsLetter(piece[n]) THEN n
        ELSE IF d > 0 /\ digitsAlone THEN n
        ELSE IF d > 0 /\ at >= 1 /\ IsLetter(piece[at])
                /\ SubSeq(piece, at + 1, at + Len(pow)) = pow THEN at
        ELSE 0

ImplicitMul(e, digitsAlone, pow) ==
    LET sub(x) ==
            LET star[i \in 0..Len(x)] ==
                    IF i = 0 \/ i = Len(x) THEN FALSE
                    ELSE /\ IsLetter(Head(x[i + 1]))
                         /\ LeftStart(x[i], digitsAlone, pow)
                              > (IF star[i - 1] THEN 1 ELSE 0)
                f[i \in 1..(Len(x) + 1)] ==
                    IF i > Len(x) THEN <<>>
                    ELSE IF i < Len(x) /\ star[i]
                    THEN Only({<<x[i] \o <<"*">> \o Head(r)>> \o Tail(r) : r \in {f[i + 1]}})
                    ELSE <<x[i]>> \o f[i + 1]
            IN  f[1]
    IN  Only({sub(x) : x \in {e}})

\* match.group(n).strip() of a captured expression, as a string
Str(t) == ExprString(SpellAll(t))

\* a handler whose confidence falls with the length of the expression
PatternResultByLength(expr_str, latex, plain, conf) ==
    IF sympify(expr_str)
    THEN [latex |-> latex, plain_text |-> plain,
          method_used |-> "pattern_matching", confidence |-> conf - Len(expr_str)]
    ELSE None

\* the try block of a handler once its expression string is prepared:
\* sp.sympify(expr_str) and the MathResponse, or the except clause's None
PatternResult(expr_str, latex, plain, conf) ==
    IF sympify(expr_str)
    THEN [latex |-> latex, plain_text |-> plain,
          method_used |-> "pattern_matching", confidence |-> conf]
    ELSE None

_handle_integral(m) ==
    LET respond(var, expr_str) ==
            PatternResult(expr_str,
                <<"\\int ", ExprString(expr_str), " \\, d", var>>,
                <<"Integral of ", ExprString(expr_str), " with respect to ", var>>,
                90)
    IN  respond(m.g[2], _preprocess_expression(SpellAll(m.g[1])))

_handle_derivative(m) ==
    LET respond(var, expr_str) ==
            PatternResult(expr_str,
                <<"\\frac{d}{d", var, "} ", ExprString(expr_str)>>,
                <<"Derivative of ", ExprString(expr_str), " with respect to ", var>>,
                90)
    IN  respond(m.g[2], _preprocess_expression(SpellAll(m.g[1])))

_handle_derivative_short(m) ==
    LET respond(var, expr_str) ==
            PatternResult(expr_str,
                <<"\\frac{d}{d", var, "} ", ExprString(expr_str)>>,
                <<"Derivative of ", ExprString(expr_str), " with respect to ", var>>,
                85)
    IN  respond(m.g[1], _preprocess_expression(SpellAll(m.g[2])))

\* re.sub(rf'\b{var}\s+(?:squared|square)', f'{var}^2', expr_str) and the same
\* for cubed|cube
GlueVarPower(e, var, w1, w2, sym) ==
    LET a == Spell(w1)  b == Spell(w2)
        wordLen(piece) == IF HasPrefix(piece, a) THEN Len(a)
                          ELSE IF HasPrefix(piece, b) THEN Len(b) ELSE 0
        isVar(piece) == /\ LastChar(piece) = var
                        /\ (Len(piece) > 1 => ~IsAlnum(piece[Len(piece) - 1]))
        hit(x, i) == IF i + 1 <= Len(x) /\ isVar(x[i]) /\ wordLen(x[i + 1]) > 0
                     THEN 2 ELSE 0
        out(x, i) == <<x[i] \o sym
                       \o SubSeq(x[i + 1], wordLen(x[i + 1]) + 1, Len(x[i + 1]))>>
    IN  Rewrite(e, hit, out)

_handle_summation(m) ==
    LET respond(var, start, end, expr_str) ==
            PatternResult(expr_str,
                <<"\\sum_{", var, "=", start, "}^{", end, "} ", ExprString(expr_str)>>,
                <<"Sum from ", var, "=", start, " to ", end, " of ",
                  ExprString(expr_str)>>,
                90)
        powers(var, e) ==
            GlueVarPower(GlueVarPower(e, var, "squared", "square", <<"^", "2">>),
                         var, "cubed", "cube", <<"^", "3">>)
    IN  respond(m.g[1], m.g[2], m.g[3],
               powers(m.g[1], _preprocess_expression(SpellAll(m.g[4]))))

_handle_product(m) ==
    LET respond(var, start, end, expr_str) ==
            PatternResult(expr_str,
                <<"\\prod_{", var, "=", start, "}^{", end, "} ", ExprString(expr_str)>>,
                <<"Product from ", var, "=", start, " to ", end, " of ",
                  ExprString(expr_str)>>,
                90)
    IN  respond(m.g[1], m.g[2], m.g[3], _preprocess_expression(SpellAll(m.g[4])))

_handle_limit(m) ==
    LET respond(var, approach, expr_str) ==
            PatternResult(expr_str,
                <<"\\lim_{", var, " \\to ", approach, "} ", ExprString(expr_str)>>,
                <<"Limit as ", var, " approaches ", approach, " of ",
                  ExprString(expr_str)>>,
                85)
        to(approach) == IF approach \in {"infinity", "inf"} THEN "\\infty" ELSE approach
    IN  respond(m.g[1], to(Str(m.g[2])), _preprocess_expression(SpellAll(m.g[3])))

_handle_partial(m) ==
    LET respond(var, expr_str) ==
            PatternResult(expr_str,
                <<"\\frac{\\partial}{\\partial ", var, "} ", ExprString(expr_str)>>,
                <<"Partial derivative of ", ExprString(expr_str),
                  " with respect to ", var>>,
                85)
        \* re.sub(r'^of\s+', '', expr_str)
        noOf(g1) == IF Len(g1) >= 2 /\ g1[1] = "of" THEN Tail(g1) ELSE g1
    IN  respond(m.g[2],
               ImplicitMul(_preprocess_expression(SpellAll(noOf(m.g[1]))), TRUE, <<"^">>))

_handle_fraction(m) ==
    LET respond(numerator, denominator) ==
            IF sympify(numerator) /\ sympify(denominator)
            THEN [latex |-> <<"\\frac{", ExprString(numerator), "}{",
                              ExprString(denominator), "}">>,
                  plain_text |-> <<"(", ExprString(numerator), ") / (",
                                   ExprString(denominator), ")">>,
                  method_used |-> "pattern_matching",
                  confidence |-> 80]
            ELSE None
    IN  respond(_preprocess_expression(SpellAll(m.g[1])),
               _preprocess_expression(SpellAll(m.g[2])))

\* handler(match) for the handler of rule k
Handle(k, m) ==
    LET handler == Now(patterns, tables.patterns)[k]
    IN  CASE handler = "_handle_integral"         -> _handle_integral(m)
          [] handler = "_handle_derivative"       -> _handle_derivative(m)
          [] handler = "_handle_derivative_short" -> _handle_derivative_short(m)
          [] handler = "_handle_partial"          -> _handle_partial(m)
          [] handler = "_handle_summation"        -> _handle_summation(m)
          [] handler = "_handle_product"          -> _handle_product(m)
          [] handler = "_handle_limit"            -> _handle_limit(m)
          [] handler = "_handle_fraction"         -> _handle_fraction(m)

\* PatternMatcher.parse on a normalized text, the loop taken as a whole: the
\* result of the first rule whose regex matches and whose handler returns one
PatternScan(t) ==
    LET try(k, m) == IF m.found THEN Handle(k, m) ELSE None
        first(results) ==
            LET won == {k \in 1..NumPatterns : results[k] \notin {None, Raised}}
            IN  IF won = {} THEN None ELSE results[Min(won)]
    IN  first([k \in 1..NumPatterns |-> try(k, Search(k, t))])

-----------------------------------------------------------------------------
(* app/nlp_processor.py: NLPProcessor *)

\* the keyword table with 'partial' after the derivative keywords
math_operations_partial_third == <<
    <<"integrate", "integral">>, <<"integration", "integral">>,
    <<"integral", "integral">>, <<"derivative", "derivative">>,
    <<"differentiate", "derivative">>, <<"diff", "derivative">>,
    <<"derive", "derivative">>, <<"partial", "partial_derivative">>,
    <<"sum", "summation">>, <<"summation", "summation">>,
    <<"sigma", "summation">>, <<"product", "product">>,
    <<"limit", "limit">>, <<"lim", "limit">> >>

\* self.math_operations, in insertion order
math_operations == <<
    <<"integrate", "integral">>, <<"integration", "integral">>,
    <<"integral", "integral">>, <<"derivative", "derivative">>,
    <<"differentiate", "derivative">>, <<"diff", "derivative">>,
    <<"derive", "derivative">>, <<"sum", "summation">>,
    <<"summation", "summation">>, <<"sigma", "summation">>,
    <<"product", "product">>, <<"limit", "limit">>, <<"lim", "limit">>,
    <<"partial", "partial_derivative">> >>

\* self.filler_words
filler_words == <<"i", "want", "to", "find", "the", "please", "can", "you",
                  "calculate", "compute", "determine", "what", "is", "help",
                  "me", "solve", "get", "give", "show">>

\* self.function_words
function_words == <<"sin", "cos", "tan", "log", "ln", "exp", "sqrt",
                    "sec", "csc", "cot", "arcsin", "arccos", "arctan">>

Range(s) == {s[k] : k \in 1..Len(s)}

\* `keyword in text_lower`
InText(t, keyword) == \E k \in 1..Len(t) : Contains(t[k], keyword)

\* NLPProcessor._extract_operation; "" is None
_extract_operation(t) ==
    LET hit == {k \in 1..Len(Now(math_operations, tables.math_operations)) :
                  InText(t, Now(math_operations, tables.math_operations)[k][1])}
    IN  IF hit = {} THEN "" ELSE Now(math_operations, tables.math_operations)[Min(hit)][2]

\* the first d([a-zA-Z])\b in a token: the letter, or ""
DLetterEnd(w) ==
    LET s == Spell(w)
        at == {j \in 1..(Len(s) - 1) :
                 /\ s[j] = "d"
                 /\ IsLetter(s[j + 1])
                 /\ (j + 2 <= Len(s) => ~IsAlnum(s[j + 2]))}
    IN  IF at = {} THEN "" ELSE s[Min(at) + 1]

\* re.findall(r'\b([a-zA-Z])\b', token)
LoneLetters(w) ==
    LET s == Spell(w)
        lone(j) == /\ IsLetter(s[j])
                   /\ (j > 1 => ~IsAlnum(s[j - 1]))
                   /\ (j < Len(s) => ~IsAlnum(s[j + 1]))
    IN  SelectSeq([j \in 1..Len(s) |-> IF lone(j) THEN s[j] ELSE ""], LAMBDA c : c # "")

\* an _extract_variable without the cues and the preference order: the first
\* valid single letter of the text, or 'x'
_extract_variable_first_letter(t) ==
    LET valid_letters ==
            SelectSeq(Flat([k \in 1..Len(t) |-> LoneLetters(t[k])]),
                      LAMBDA l : l \notin Range(Now(filler_words, tables.filler_words)))
    IN  IF valid_letters = <<>> THEN "x" ELSE valid_letters[1]

\* NLPProcessor._extract_variable
_extract_variable(t) ==
    LET cue(firsts, rest) ==
            LET at == {p \in 1..Len(t) :
                         /\ PrefixAt(t, p, firsts, rest)
                         /\ p + Len(rest) + 1 <= Len(t)
                         /\ IsLetter(FirstChar(t[p + Len(rest) + 1]))}
            IN  IF at = {} THEN "" ELSE FirstChar(t[Min(at) + Len(rest) + 1])
        c1 == cue({"with"}, <<"respect", "to">>)
        c2 == cue({"wrt"}, <<>>)
        c3 == cue({"w.r.t", "w.r.t."}, <<>>)
        ds == {k \in 1..Len(t) : DLetterEnd(t[k]) # ""}
        single_letters == Flat([k \in 1..Len(t) |-> LoneLetters(t[k])])
        valid_letters ==
            SelectSeq(single_letters,
                      LAMBDA l : l \notin Range(Now(filler_words, tables.filler_words)))
        preferred == <<"x", "y", "z", "t", "n", "i", "j", "k">>
        pref == {k \in 1..Len(preferred) : preferred[k] \in Range(valid_letters)}
    IN  IF c1 # "" THEN c1
        ELSE IF c2 # "" THEN c2
        ELSE IF c3 # "" THEN c3
        ELSE IF ds # {} THEN DLetterEnd(t[Min(ds)])
        ELSE IF valid_letters = <<>> THEN "x"
        ELSE IF pref # {} THEN preferred[Min(pref)]
        ELSE valid_letters[1]

\* a piece cut at the characters for which Drop holds
SplitPiece(piece, Drop(_)) ==
    LET f[i \in 1..(Len(piece) + 1)] ==
            \* <<pieces completed, piece being read>> for piece[i..]
            IF i > Len(piece) THEN <<<<>>, <<>>>>
            ELSE LET r == f[i + 1]
                 IN  IF Drop(i)
                     THEN <<(IF r[2] = <<>> THEN r[1] ELSE <<r[2]>> \o r[1]), <<>>>>
                     ELSE <<r[1], <<piece[i]>> \o r[2]>>
        r0 == f[1]
    IN  IF r0[2] = <<>> THEN r0[1] ELSE <<r0[2]>> \o r0[1]

\* the maximal run of [a-zA-Z0-9] around position i of a piece, as a string
WordAround(piece, i) ==
    LET lo == Min({j \in 1..i : \A k \in j..i : IsAlnum(piece[k])})
        hi == CHOOSE j \in i..Len(piece) :
                 /\ \A k \in i..j : IsAlnum(piece[k])
                 /\ (j < Len(piece) => ~IsAlnum(piece[j + 1]))
    IN  Join(SubSeq(piece, lo, hi))

\* NLPProcessor._clean_expression: every whole word of remove_words becomes a
\* blank, and blanks are collapsed
_clean_expression(e, remove_words) ==
    LET W == Range(remove_words)
        clean(piece) ==
            IF \A k \in 1..Len(piece) : IsAlnum(piece[k])
            THEN IF Join(piece) \in W THEN <<>> ELSE <<piece>>
            ELSE SplitPiece(piece,
                     LAMBDA i : IsAlnum(piece[i]) /\ WordAround(piece, i) \in W)
    IN  Flat([k \in 1..Len(e) |-> clean(e[k])])

\* str.replace(word, symbol) inside one piece
ReplaceInPiece(piece, word, symbol) ==
    LET w == Spell(word)
        f[i \in 1..(Len(piece) + 1)] ==
            IF i > Len(piece) THEN <<>>
            ELSE IF i + Len(w) - 1 <= Len(piece) /\ SubSeq(piece, i, i + Len(w) - 1) = w
            THEN symbol \o f[i + Len(w)]
            ELSE <<piece[i]>> \o f[i + 1]
    IN  f[1]

ReplaceStr(e, word, symbol) ==
    Only({[k \in 1..Len(x) |-> ReplaceInPiece(x[k], word, symbol)] : x \in {e}})

HasSuffix(piece, k) ==
    Len(piece) >= Len(k) /\ SubSeq(piece, Len(piece) - Len(k) + 1, Len(piece)) = k

\* str.replace('divided by', '/'): the two words may end and start longer pieces
ReplaceDividedBy(e) ==
    LET a == Spell("divided")  b == Spell("by")
        hit(x, i) == IF i + 1 <= Len(x) /\ HasSuffix(x[i], a) /\ HasPrefix(x[i + 1], b)
                     THEN 2 ELSE 0
        out(x, i) == <<SubSeq(x[i], 1, Len(x[i]) - Len(a)) \o <<"/">>
                       \o SubSeq(x[i + 1], Len(b) + 1, Len(x[i + 1]))>>
    IN  Rewrite(e, hit, out)

\* re.sub(r'(\d+)([a-zA-Z])', r'\1*\2', text)
DigitLetter(e) ==
    Only({[k \in 1..Len(x) |->
             Flat([j \in 1..Len(x[k]) |->
                     IF j > 1 /\ x[k][j - 1] \in Digits /\ IsLetter(x[k][j])
                     THEN <<"*", x[k][j]>> ELSE <<x[k][j]>>])] : x \in {e}})

\* NLPProcessor._preprocess_math_text
_preprocess_math_text(e) ==
    LET e1 == GluePower(e, "squared", "square", <<"*", "*", "2">>)
        e2 == GluePower(e1, "cubed", "cube", <<"*", "*", "3">>)
        e3 == GlueToThe(e2, <<"*", "*">>, FALSE)
        e4 == ReplaceStr(ReplaceStr(e3, "plus", <<"+">>), "minus", <<"-">>)
        e5 == ReplaceStr(ReplaceStr(e4, "times", <<"*">>), "multiply", <<"*">>)
        e6 == ReplaceStr(ReplaceDividedBy(e5), "over", <<"/">>)
        e7 == CallFuncs(e6, Now(function_words, tables.function_words))
    IN  ImplicitMul(DigitLetter(e7), FALSE, <<"*", "*">>)

\* re.sub(rf'\b{var}\s*$', '', expr_text).strip()
DropTrailingVar(e, var) ==
    IF e = <<>> THEN e
    ELSE LET last == e[Len(e)]
             n == Len(last)
         IN  IF last[n] = var /\ (n > 1 => ~IsAlnum(last[n - 1]))
             THEN IF n = 1 THEN SubSeq(e, 1, Len(e) - 1)
                  ELSE [e EXCEPT ![Len(e)] = SubSeq(last, 1, n - 1)]
             ELSE e


\* a sub-parser without its except clause
ParserNoExcept(v) == v

\* except Exception as e: ...; return None -- the clause that ends every
\* sub-parser's try block
ParserExcept(v) == IF v = Raised THEN None ELSE v

\* a heuristic tier whose confidence constants are 25 hundredths higher
NlpResultHigher(latex, plain, conf) ==
    [latex |-> latex, plain_text |-> plain, method_used |-> "nlp",
     confidence |-> conf + 25]

NlpResult(latex, plain, conf) ==
    [latex |-> latex, plain_text |-> plain, method_used |-> "nlp", confidence |-> conf]

\* the rest of a sub-parser's try block once the expression text is prepared:
\* the empty text returns None where the sub-parser checks it, sp.sympify may
\* raise, and otherwise the MathResponse is built
NlpTry(expr_text, checksEmpty, latex, plain, conf) ==
    IF checksEmpty /\ expr_text = <<>> THEN None
    ELSE IF ~sympify(expr_text) THEN Raised
    ELSE NlpResult(latex, plain, conf)

_parse_integral_nlp(t) ==
    LET remove_words(var) == <<"integrate", "integral", "integration", "of", "with",
                               "respect", "to", "wrt", "d" \o var>>
                             \o Now(filler_words, tables.filler_words)
        expr(var) == DropTrailingVar(
                         _preprocess_math_text(
                             _clean_expression(SpellAll(t), remove_words(var))), var)
        try(var, expr_text) ==
            NlpTry(expr_text, TRUE,
                   <<"\\int ", ExprString(expr_text), " \\, d", var>>,
                   <<"Integral of ", ExprString(expr_text), " with respect to ", var>>,
                   70)
        body(var) == try(var, expr(var))
    IN  ParserExcept(body(_extract_variable(t)))

_parse_derivative_nlp(t) ==
    LET remove_words(var) == <<"derivative", "differentiate", "diff", "derive", "of",
                               "with", "respect", "to", "wrt", "d" \o var>>
                             \o Now(filler_words, tables.filler_words)
        expr(var) == DropTrailingVar(
                         _preprocess_math_text(
                             _clean_expression(SpellAll(t), remove_words(var))), var)
        try(var, expr_text) ==
            NlpTry(expr_text, TRUE,
                   <<"\\frac{d}{d", var, "} ", ExprString(expr_text)>>,
                   <<"Derivative of ", ExprString(expr_text), " with respect to ", var>>,
                   70)
        body(var) == try(var, expr(var))
    IN  ParserExcept(body(_extract_variable(t)))

_parse_partial_derivative_nlp(t) ==
    LET remove_words == <<"partial", "derivative", "of", "with", "respect", "to",
                          "wrt">> \o Now(filler_words, tables.filler_words)
        try(var, expr_text) ==
            NlpTry(expr_text, TRUE,
                   <<"\\frac{\\partial}{\\partial ", var, "} ", ExprString(expr_text)>>,
                   <<"Partial derivative of ", ExprString(expr_text),
                     " with respect to ", var>>,
                   65)
    IN  ParserExcept(try(_extract_variable(t),
                         _preprocess_math_text(
                             _clean_expression(SpellAll(t), remove_words))))

\* (?:from|of)\s+([a-zA-Z])\s*(?:equals|=)\s*([a-zA-Z0-9]+)\s+to\s+([a-zA-Z0-9]+)
SearchFromTo(t) ==
    LET at(p) == /\ p + 5 <= Len(t)
                 /\ (EndsWith(t[p], "from") \/ EndsWith(t[p], "of"))
                 /\ IsLetterToken(t[p + 1])
                 /\ t[p + 2] \in {"equals", "="}
                 /\ IsAlnumToken(t[p + 3])
                 /\ t[p + 4] = "to"
                 /\ AlnumRun(Spell(t[p + 5])) # <<>>
        Starts == {p \in 1..Len(t) : at(p)}
    IN  IF Starts = {} THEN NoMatch
        ELSE LET p == Min(Starts)
             IN  [found |-> TRUE,
                  g |-> <<t[p + 1], t[p + 3], Join(AlnumRun(Spell(t[p + 5])))>>]

\* expr_text.replace(var, '').replace('=', '').strip()
RemoveChars(e, cs) ==
    SelectSeq([k \in 1..Len(e) |-> SelectSeq(e[k], LAMBDA c : c \notin cs)],
              LAMBDA piece : piece # <<>>)

\* the expression of a summation or product: the words of the bounds, the
\* variable and "=" are removed; what is left, or the variable if nothing is
expr_bounds(t, words, var, start, end) ==
    LET orVar(e) == IF e = <<>> THEN <<<<var>>>> ELSE e
    IN  orVar(_preprocess_math_text(
                  RemoveChars(_clean_expression(SpellAll(t),
                                  words \o <<start, end>>
                                  \o Now(filler_words, tables.filler_words)),
                              {var, "="})))

_parse_summation_nlp(t) ==
    LET try(var, start, end, expr_text) ==
            NlpTry(expr_text, FALSE,
                   <<"\\sum_{", var, "=", start, "}^{", end, "} ", ExprString(expr_text)>>,
                   <<"Sum from ", var, "=", start, " to ", end, " of ",
                     ExprString(expr_text)>>,
                   65)
        words == <<"sum", "summation", "sigma", "from", "of", "to", "equals">>
        body(var_match) ==
            IF ~var_match.found THEN None
            ELSE try(var_match.g[1], var_match.g[2], var_match.g[3],
                     expr_bounds(t, words, var_match.g[1], var_match.g[2], var_match.g[3]))
    IN  ParserExcept(body(SearchFromTo(t)))

_parse_product_nlp(t) ==
    LET try(var, start, end, expr_text) ==
            NlpTry(expr_text, FALSE,
                   <<"\\prod_{", var, "=", start, "}^{", end, "} ", ExprString(expr_text)>>,
                   <<"Product from ", var, "=", start, " to ", end, " of ",
                     ExprString(expr_text)>>,
                   65)
        words == <<"product", "from", "of", "to", "equals">>
        body(var_match) ==
            IF ~var_match.found THEN None
            ELSE try(var_match.g[1], var_match.g[2], var_match.g[3],
                     expr_bounds(t, words, var_match.g[1], var_match.g[2], var_match.g[3]))
    IN  ParserExcept(body(SearchFromTo(t)))

\* (?:lim|limit|as)\s+([a-zA-Z])\s+(?:approaches|goes\s+to|tends\s+to|->)\s+
\* ([a-zA-Z0-9]+|infinity|inf)\s+(?:of\s+)?(.+)
SearchApproach(t) ==
    LET verbs == <<<<"approaches">>, <<"goes", "to">>, <<"tends", "to">>, <<"->">>>>
        target(p) == p + 2 + SepLen(t, p + 2, verbs)
        at(p) == /\ p + 1 <= Len(t)
                 /\ \E w \in {"lim", "limit", "as"} : EndsWith(t[p], w)
                 /\ IsLetterToken(t[p + 1])
                 /\ SepLen(t, p + 2, verbs) > 0
                 /\ target(p) + 1 <= Len(t)
                 /\ IsAlnumToken(t[target(p)])
        Starts == {p \in 1..Len(t) : at(p)}
    IN  IF Starts = {} THEN NoMatch
        ELSE LET p == Min(Starts)
             IN  [found |-> TRUE,
                  g |-> <<t[p + 1], t[target(p)],
                          OptOfRest(SubSeq(t, target(p) + 1, Len(t)))>>]

\* a limit sub-parser without the re.search precondition: it renders the text
\* as it stands
_parse_limit_nlp_lenient(t) ==
    NlpResult(<<"\\lim ", Str(t)>>, <<"Limit of ", Str(t)>>, 70)

_parse_limit_nlp(t) ==
    LET try(var, approach, expr_text) ==
            NlpTry(expr_text, TRUE,
                   <<"\\lim_{", var, " \\to ", approach, "} ", ExprString(expr_text)>>,
                   <<"Limit as ", var, " approaches ", approach, " of ",
                     ExprString(expr_text)>>,
                   70)
        to(approach) == IF approach \in {"infinity", "inf"} THEN "\\infty" ELSE approach
        body(var_match) ==
            IF ~var_match.found THEN None
            ELSE try(var_match.g[1], to(var_match.g[2]),
                     _preprocess_math_text(
                         _clean_expression(SpellAll(var_match.g[3]),
                                           Now(filler_words, tables.filler_words))))
    IN  ParserExcept(body(SearchApproach(t)))

\* a simple-expression parser that strips 'partial' too and reports the
\* confidence of the partial-derivative sub-parser
_parse_simple_expression_as_partial(t) ==
    LET try(expr_text) ==
            NlpTry(expr_text, FALSE,
                   <<ExprString(expr_text)>>, <<ExprString(expr_text)>>, 65)
    IN  ParserExcept(try(_preprocess_math_text(
                             _clean_expression(SpellAll(t),
                                               <<"partial">>
                                               \o Now(filler_words, tables.filler_words)))))

_parse_simple_expression(t) ==
    LET try(expr_text) ==
            NlpTry(expr_text, FALSE,
                   <<ExprString(expr_text)>>, <<ExprString(expr_text)>>, 60)
    IN  ParserExcept(try(_preprocess_math_text(
                             _clean_expression(SpellAll(t),
                                               Now(filler_words, tables.filler_words)))))

\* NLPProcessor.parse: the sub-parser called for an operation
SubParser(op, t) ==
    CASE op = "integral"           -> _parse_integral_nlp(t)
      [] op = "derivative"         -> _parse_derivative_nlp(t)
      [] op = "partial_derivative" -> _parse_partial_derivative_nlp(t)
      [] op = "summation"          -> _parse_summation_nlp(t)
      [] op = "product"            -> _parse_product_nlp(t)
      [] op = "limit"              -> _parse_limit_nlp(t)
      [] OTHER                     -> _parse_simple_expression(t)

-----------------------------------------------------------------------------
(* The requests served.  A query text is a frame (the words that name the   *)
(* operation and its variable or bounds) around an expression: an optional  *)
(* operand x followed by at most MaxOps operator phrases, none of them      *)
(* twice.                                                                    *)

Operands == {<<>>, <<"x">>}

OpPhrases == {<<"squared">>, <<"plus", "y">>, <<"divided", "by", "y">>, <<"y">>}

RECURSIVE PhraseSeqs(_)
PhraseSeqs(n) ==
    IF n = 0 THEN {<<>>}
    ELSE LET shorter == PhraseSeqs(n - 1)
         IN  shorter \cup UNION {{Append(s, ph) : ph \in OpPhrases \ Range(s)} :
                                    s \in shorter}

Bodies == {o \o Flat(s) : o \in Operands, s \in PhraseSeqs(MaxOps)}

Frames == {
    [head |-> <<>>,                                        tail |-> <<>>],
    [head |-> <<WS>>,                                      tail |-> <<>>],
    [head |-> <<"integrate">>,                             tail |-> <<"with", "respect", "to", "y">>],
    [head |-> <<WS, "Integrate">>,                         tail |-> <<WS, "wrt", "y", WS>>],
    [head |-> <<"integrate">>,                             tail |-> <<"dx">>],
    [head |-> <<"integral", "of">>,                        tail |-> <<"dx">>],
    [head |-> <<"int">>,                                   tail |-> <<"dx">>],
    [head |-> <<"derivative", "of">>,                      tail |-> <<"with", "respect", "to", "y">>],
    [head |-> <<"differentiate">>,                         tail |-> <<"wrt", "x">>],
    [head |-> <<"diff">>,                                  tail |-> <<"wrt", "x">>],
    [head |-> <<"d/dx", "of">>,                            tail |-> <<>>],
    [head |-> <<"d/dy", "of">>,                            tail |-> <<>>],
    [head |-> <<"d/dy">>,                                  tail |-> <<>>],
    [head |-> <<"partial", "derivative", "of">>,           tail |-> <<"with", "respect", "to", "y">>],
    [head |-> <<"partial", "derivative", "of">>,           tail |-> <<"wrt", "x">>],
    [head |-> <<"partial">>,                               tail |-> <<"with", "respect", "to", "y">>],
    [head |-> <<"sum", "from", "i", "=", "1", "to", "n", "of">>,      tail |-> <<>>],
    [head |-> <<"sigma", "of", "i", "equals", "1", "to", "n">>,       tail |-> <<>>],
    [head |-> <<"product", "of", "i", "equals", "1", "to", "n">>,     tail |-> <<>>],
    [head |-> <<"limit", "as", "x", "approaches", "0", "of">>,        tail |-> <<>>],
    [head |-> <<"lim", "x", "->", "infinity">>,                       tail |-> <<>>],
    [head |-> <<"partial", "sum", "from", "i", "=", "1", "to", "n">>, tail |-> <<>>],
    [head |-> <<"partial", "product">>,                    tail |-> <<>>],
    [head |-> <<"partial", "limit">>,                      tail |-> <<>>],
    [head |-> <<"find", "the", "sum">>,                    tail |-> <<>>] }

Inputs == {f.head \o b \o f.tail : f \in Frames, b \in Bodies}

Endpoints == {"parse", "pattern_only", "nlp_only"}

\* the shared tables just after construction: nothing written to them since
NoWrites ==
    [typo_corrections |-> <<>>, synonyms |-> <<>>, normalizations |-> <<>>,
     word_to_symbol |-> <<>>, trig_functions |-> <<>>, patterns |-> <<>>,
     math_operations |-> <<>>, function_words |-> <<>>, filler_words |-> <<>>]

NoBy == [rule |-> 0, handler |-> ""]
NoResponse == [status |-> 0, body |-> None]

-----------------------------------------------------------------------------
(* The service: app/main.py *)

Init ==
    /\ nlp \in BOOLEAN
    /\ pc = "idle"
    /\ endpoint = ""
    /\ query = <<>>
    /\ text = <<>>
    /\ idx = 0
    /\ match = NoMatch
    /\ operation = ""
    /\ result = None
    /\ by = NoBy
    /\ calls = <<>>
    /\ response = NoResponse
    /\ renorm = <<>>
    /\ tables = NoWrites
    /\ thread = <<>>
    /\ variable = ""

\* a request arrives at one of the three POST endpoints
Receive ==
    /\ pc = "idle"
    /\ \E ep \in Endpoints, q \in Inputs :
         /\ endpoint' = ep
         /\ query' = q
    /\ pc' = "endpoint"
    /\ UNCHANGED <<tables, thread, variable,
                   nlp, text, idx, match, operation, result, by, calls, response, renorm>>

\* parse_math_expression, up to the call of pattern_matcher.parse
ParseEntry ==
    /\ pc = "endpoint" /\ endpoint = "parse"
    /\ text' = strip(query)
    /\ IF text' = <<>>
       THEN /\ response' = [status |-> 400, body |-> None]
            /\ pc' = "done"
            /\ calls' = calls
       ELSE /\ response' = response
            /\ pc' = "pm_parse"
            /\ calls' = Append(calls, "pattern_matcher.parse")
    /\ UNCHANGED <<tables, thread, variable,
                   nlp, endpoint, query, idx, match, operation, result, by, renorm>>

\* parse_pattern_only: pattern_matcher.parse(query.text)
PatternOnlyEntry ==
    /\ pc = "endpoint" /\ endpoint = "pattern_only"
    /\ text' = query
    /\ pc' = "pm_parse"
    /\ calls' = Append(calls, "pattern_matcher.parse")
    /\ UNCHANGED <<tables, thread, variable,
                   nlp, endpoint, query, idx, match, operation, result, by, response, renorm>>

\* parse_nlp_only: nlp_processor.parse(query.text)
NlpOnlyEntry ==
    /\ pc = "endpoint" /\ endpoint = "nlp_only"
    /\ text' = query
    /\ pc' = "nlp_parse"
    /\ calls' = Append(calls, "nlp_processor.parse")
    /\ UNCHANGED <<tables, thread, variable,
                   nlp, endpoint, query, idx, match, operation, result, by, response, renorm>>

\* PatternMatcher.parse: the text is normalized and the loop over the rules
\* starts
PM_Normalize ==
    /\ pc = "pm_parse"
    /\ text' = strip(lower(normalize(text)))
    /\ idx' = 0
    /\ match' = NoMatch
    /\ pc' = "pm_loop"
    /\ UNCHANGED <<tables, thread, variable,
                   nlp, endpoint, query, operation, result, by, calls, response, renorm>>

\* a loop that goes to the last rule whose regex matches
PM_SearchLast ==
    /\ pc = "pm_loop"
    /\ idx <= NumPatterns
    /\ ~match.found
    /\ \E found \in {{k \in (idx + 1)..NumPatterns : Search(k, text).found}} :
         IF found = {}
         THEN idx' = NumPatterns + 1 /\ match' = NoMatch
         ELSE \E k \in found :
                /\ \A j \in found : k >= j
                /\ idx' = k
                /\ match' = Search(k, text)
    /\ UNCHANGED <<tables, thread, variable,
                   nlp, pc, endpoint, query, text, operation, result, by, calls,
                   response, renorm>>

\* the loop goes on, re.search on each next rule, to the first rule after idx
\* whose regex matches the text, or past the last rule
PM_Search ==
    /\ pc = "pm_loop"
    /\ idx <= NumPatterns
    /\ ~match.found
    /\ \E found \in {{k \in (idx + 1)..NumPatterns : Search(k, text).found}} :
         IF found = {}
         THEN idx' = NumPatterns + 1 /\ match' = NoMatch
         ELSE \E k \in found :
                /\ \A j \in found : k <= j
                /\ idx' = k
                /\ match' = Search(k, text)
    /\ UNCHANGED <<tables, thread, variable,
                   nlp, pc, endpoint, query, text, operation, result, by, calls,
                   response, renorm>>

\* a scan that ends, and returns None, at the first rule whose handler fails
PM_HandleAbort(h, r) ==
    /\ pc = "pm_loop"
    /\ match.found
    /\ Now(patterns, tables.patterns)[idx] = h
    /\ result' = IF r # None /\ r # Raised THEN r ELSE None
    /\ by' = [rule |-> idx, handler |-> h]
    /\ pc' = "pm_return"
    /\ match' = NoMatch
    /\ UNCHANGED <<tables, thread, variable,
                   nlp, endpoint, query, text, idx, operation, calls, response, renorm>>

\* the regex of rule idx matched and its handler h is called: r is
\* handler(match); a result is returned, None or an exception continues the loop
PM_Handle(h, r) ==
    /\ pc = "pm_loop"
    /\ match.found
    /\ Now(patterns, tables.patterns)[idx] = h
    /\ IF r # None /\ r # Raised
       THEN /\ result' = r
            /\ by' = [rule |-> idx, handler |-> h]
            /\ pc' = "pm_return"
       ELSE UNCHANGED <<result, by, pc>>
    /\ match' = NoMatch
    /\ UNCHANGED <<tables, thread, variable,
                   nlp, endpoint, query, text, idx, operation, calls, response, renorm>>

HandleIntegral == PM_Handle("_handle_integral", _handle_integral(match))
HandleDerivative == PM_Handle("_handle_derivative", _handle_derivative(match))
HandleDerivativeShort ==
    PM_Handle("_handle_derivative_short", _handle_derivative_short(match))
HandlePartial == PM_Handle("_handle_partial", _handle_partial(match))
HandleSummation == PM_Handle("_handle_summation", _handle_summation(match))
HandleProduct == PM_Handle("_handle_product", _handle_product(match))
HandleLimit == PM_Handle("_handle_limit", _handle_limit(match))
HandleFraction == PM_Handle("_handle_fraction", _handle_fraction(match))

\* the loop ends without a result: return None
PM_ReturnNone ==
    /\ pc = "pm_loop"
    /\ idx > NumPatterns
    /\ result' = None
    /\ pc' = "pm_return"
    /\ UNCHANGED <<tables, thread, variable,
                   nlp, endpoint, query, text, idx, match, operation, by, calls,
                   response, renorm>>

\* a dispatcher that calls the heuristic tier whatever the pattern tier returned
ParseAfterPatternBoth ==
    /\ pc = "pm_return" /\ endpoint = "parse"
    /\ text' = strip(query)
    /\ pc' = "nlp_parse"
    /\ calls' = Append(calls, "nlp_processor.parse")
    /\ UNCHANGED <<tables, thread, variable,
                   nlp, endpoint, query, idx, match, operation, result, by, response,
                   renorm>>

\* parse_math_expression after pattern_matcher.parse returned
ParseAfterPattern ==
    /\ pc = "pm_return" /\ endpoint = "parse"
    /\ IF result # None
       THEN /\ response' = [status |-> 200, body |-> result]
            /\ pc' = "done"
            /\ UNCHANGED <<text, calls>>
       ELSE /\ text' = strip(query)
            /\ pc' = "nlp_parse"
            /\ calls' = Append(calls, "nlp_processor.parse")
            /\ response' = response
    /\ UNCHANGED <<tables, thread, variable,
                   nlp, endpoint, query, idx, match, operation, result, by, renorm>>

\* parse_pattern_only after pattern_matcher.parse returned
PatternOnlyReturn ==
    /\ pc = "pm_return" /\ endpoint = "pattern_only"
    /\ response' = IF result # None THEN [status |-> 200, body |-> result]
                   ELSE [status |-> 422, body |-> None]
    /\ pc' = "done"
    /\ UNCHANGED <<tables, thread, variable,
                   nlp, endpoint, query, text, idx, match, operation, result, by, calls,
                   renorm>>

\* a parse that classifies and parses whether the language model loaded or not
NLP_EnterUnguarded ==
    /\ pc = "nlp_parse"
    /\ text' = strip(lower(normalize(text)))
    /\ operation' = _extract_operation(text')
    /\ pc' = "nlp_dispatch"
    /\ result' = result
    /\ UNCHANGED <<tables, thread, variable,
                   nlp, endpoint, query, idx, match, by, calls, response, renorm>>

\* NLPProcessor.parse up to the dispatch on the operation
NLP_Enter ==
    /\ pc = "nlp_parse"
    /\ IF ~nlp
       THEN /\ result' = None
            /\ pc' = "nlp_return"
            /\ UNCHANGED <<text, operation>>
       ELSE /\ text' = strip(lower(normalize(text)))
            /\ operation' = _extract_operation(text')
            /\ pc' = "nlp_dispatch"
            /\ result' = result
    /\ UNCHANGED <<tables, thread, variable,
                   nlp, endpoint, query, idx, match, by, calls, response, renorm>>

\* a parse that falls back to _parse_simple_expression when the sub-parser of
\* the operation returns None
NLP_SubFallback(op, name, r) ==
    /\ pc = "nlp_dispatch"
    /\ operation = op
    /\ result' = IF r = None THEN _parse_simple_expression(text) ELSE r
    /\ by' = [rule |-> 0,
              handler |-> IF r = None THEN "_parse_simple_expression" ELSE name]
    /\ pc' = "nlp_return"
    /\ UNCHANGED <<tables, thread, variable,
                   nlp, endpoint, query, text, idx, match, operation, calls, response,
                   renorm>>

\* the branch of NLPProcessor.parse for operation op calls sub-parser name
NLP_Sub(op, name, r) ==
    /\ pc = "nlp_dispatch"
    /\ operation = op
    /\ result' = r
    /\ by' = [rule |-> 0, handler |-> name]
    /\ pc' = "nlp_return"
    /\ UNCHANGED <<tables, thread, variable,
                   nlp, endpoint, query, text, idx, match, operation, calls, response,
                   renorm>>

ParseIntegralNlp ==
    NLP_Sub("integral", "_parse_integral_nlp", _parse_integral_nlp(text))
ParseDerivativeNlp ==
    NLP_Sub("derivative", "_parse_derivative_nlp", _parse_derivative_nlp(text))
ParsePartialNlp ==
    NLP_Sub("partial_derivative", "_parse_partial_derivative_nlp",
            _parse_partial_derivative_nlp(text))
ParseSummationNlp ==
    NLP_Sub("summation", "_parse_summation_nlp", _parse_summation_nlp(text))
ParseProductNlp ==
    NLP_Sub("product", "_parse_product_nlp", _parse_product_nlp(text))
ParseLimitNlp ==
    NLP_Sub("limit", "_parse_limit_nlp", _parse_limit_nlp(text))
ParseSimpleNlp ==
    NLP_Sub("", "_parse_simple_expression", _parse_simple_expression(text))

\* the caller of nlp_processor.parse: a result is the response, None is the
\* 422 error, and an exception that left the tier is a server error
AfterNlp ==
    /\ pc = "nlp_return"
    /\ response' = IF result = Raised THEN [status |-> 500, body |-> None]
                   ELSE IF result # None THEN [status |-> 200, body |-> result]
                   ELSE [status |-> 422, body |-> None]
    /\ pc' = "done"
    /\ UNCHANGED <<tables, thread, variable,
                   nlp, endpoint, query, text, idx, match, operation, result, by, calls,
                   renorm>>

\* a dispatcher that tries the pattern tier again when the heuristic tier
\* returned None
ParseAfterNlpRetry ==
    /\ endpoint = "parse"
    /\ pc = "nlp_return"
    /\ IF result = None
       THEN /\ text' = strip(query)
            /\ pc' = "pm_parse"
            /\ response' = response
       ELSE /\ response' = [status |-> 200, body |-> result]
            /\ pc' = "done"
            /\ text' = text
    /\ UNCHANGED <<tables, thread, variable,
                   nlp, endpoint, query, idx, match, operation, result, by, calls,
                   renorm>>

\* parse_math_expression after nlp_processor.parse returned
ParseAfterNlp == endpoint = "parse" /\ AfterNlp

\* parse_nlp_only after nlp_processor.parse returned
NlpOnlyReturn == endpoint = "nlp_only" /\ AfterNlp

\* the response is sent and the worker takes the next request
Finish ==
    /\ pc = "done"
    /\ pc' = "idle"
    /\ endpoint' = ""
    /\ query' = <<>>
    /\ text' = <<>>
    /\ idx' = 0
    /\ match' = NoMatch
    /\ operation' = ""
    /\ result' = None
    /\ by' = NoBy
    /\ calls' = <<>>
    /\ response' = NoResponse
    /\ UNCHANGED <<tables, thread, variable, nlp, renorm>>

Next ==
    \/ Receive
    \/ ParseEntry
    \/ PatternOnlyEntry
    \/ NlpOnlyEntry
    \/ PM_Normalize
    \/ PM_Search
    \/ HandleIntegral
    \/ HandleDerivative
    \/ HandleDerivativeShort
    \/ HandlePartial
    \/ HandleSummation
    \/ HandleProduct
    \/ HandleLimit
    \/ HandleFraction
    \/ PM_ReturnNone
    \/ ParseAfterPattern
    \/ PatternOnlyReturn
    \/ NLP_Enter
    \/ ParseIntegralNlp
    \/ ParseDerivativeNlp
    \/ ParsePartialNlp
    \/ ParseSummationNlp
    \/ ParseProductNlp
    \/ ParseLimitNlp
    \/ ParseSimpleNlp
    \/ ParseAfterNlp
    \/ NlpOnlyReturn
    \/ Finish

Spec == Init /\ [][Next]_vars

\* An endpoint is a synchronous function run by one worker thread: once a
\* request is received its handler runs on, step after step, until it returns.
\* Whether another request arrives is left open.  This is weak fairness of the
\* handler's steps, pc # "idle" /\ Next, with ENABLED written as the state
\* predicate it equals: a step is possible in every state with a request in
\* hand (Spec has no deadlock).
SpecLive == Spec /\ (<>[](pc # "idle") => []<><<pc # "idle" /\ Next>>_vars)

-----------------------------------------------------------------------------
(* TextNormalizer.normalize on its own: the texts of at most MaxNormLen      *)
(* tokens over the words the normalizer rewrites, normalized twice.          *)

NormVocab == {WS, "Integrate", "x", "sqaure", "integrat", "diff", "deriv", "d/dx",
              "int", "sigma", "wrt", "w.r.t", "w.r.t.", "rt", "^"}

RECURSIVE TextsUpTo(_)
TextsUpTo(n) ==
    IF n = 0 THEN {<<>>}
    ELSE LET shorter == TextsUpTo(n - 1)
         IN  shorter \cup {Append(t, w) : t \in shorter, w \in NormVocab}

NormInputs == TextsUpTo(MaxNormLen)

InitNorm ==
    /\ nlp = TRUE
    /\ pc = "norm"
    /\ endpoint = ""
    /\ query \in NormInputs
    /\ text = <<>>
    /\ idx = 0
    /\ match = NoMatch
    /\ operation = ""
    /\ result = None
    /\ by = NoBy
    /\ calls = <<>>
    /\ response = NoResponse
    /\ renorm = <<>>
    /\ tables = NoWrites
    /\ thread = <<>>
    /\ variable = ""

\* text = normalizer.normalize(query)
NormFirst ==
    /\ pc = "norm"
    /\ text' = normalize(query)
    /\ pc' = "normalized"
    /\ UNCHANGED <<tables, thread, variable,
                   nlp, endpoint, query, idx, match, operation, result, by, calls,
                   response, renorm>>

\* renorm = normalizer.normalize(text)
NormSecond ==
    /\ pc = "normalized"
    /\ renorm' = normalize(text)
    /\ pc' = "renormalized"
    /\ UNCHANGED <<tables, thread, variable,
                   nlp, endpoint, query, text, idx, match, operation, result, by, calls,
                   response>>

NextNorm ==
    \/ NormFirst
    \/ NormSecond

SpecNorm == InitNorm /\ [][NextNorm]_vars

-----------------------------------------------------------------------------
(* Concurrent calls.  The endpoints are plain functions, which the server    *)
(* runs in a pool of worker threads; the calls of two requests interleave on *)
(* the module-level pattern_matcher and nlp_processor and their normalizers. *)

Threads == {"first", "second"}

InitConc ==
    /\ nlp = TRUE
    /\ pc = "alone"
    /\ endpoint = ""
    /\ query = <<>>
    /\ text = <<>>
    /\ idx = 0
    /\ match = NoMatch
    /\ operation = ""
    /\ result = None
    /\ by = NoBy
    /\ calls = <<>>
    /\ response = NoResponse
    /\ renorm = <<>>
    /\ tables = NoWrites
    /\ thread \in [Threads -> {[func |-> f, query |-> q, pc |-> "called", text |-> <<>>,
                                operation |-> "", result |-> None, alone |-> None] :
                               f \in {"PatternMatcher.parse", "NLPProcessor.parse",
                                      "TextNormalizer.normalize"},
                               q \in {<<"lim", "x", "->", "0", "x">>,
                                      <<"limit", "as", "x", "approaches", "0", "of",
                                        "x", "plus", "y">>,
                                      <<"x", "plus", "y">>,
                                      <<"Integrate", "x", "sqaure", "wrt", "y">>,
                                      <<"sigma", "of", "i", "equals", "1", "to", "n">>,
                                      <<"find", "the", "sum">>}}]
    /\ variable = ""

\* Each call is first made alone, on the instances as constructed and with no
\* other call running, and what it returns is kept in `alone`; after that the
\* two calls are made together and their steps interleave.

\* the call of thread t returns r, having written `written` to the tables
ConcReturn(t, r, written) ==
    IF pc = "alone"
    THEN /\ thread' = [thread EXCEPT ![t].alone = r, ![t].pc = "measured",
                                     ![t].text = <<>>, ![t].operation = ""]
         /\ tables' = NoWrites
    ELSE /\ thread' = [thread EXCEPT ![t].result = r, ![t].pc = "returned"]
         /\ tables' = written

\* both calls have been made alone: now they are made together
ConcTogether ==
    /\ pc = "alone"
    /\ \A t \in Threads : thread[t].pc = "measured"
    /\ pc' = "concurrent"
    /\ thread' = [t \in Threads |-> [thread[t] EXCEPT !.pc = "called"]]
    /\ UNCHANGED <<tables, variable, nlp, endpoint, query, text, idx, match,
                   operation, result, by, calls, response, renorm>>

\* the call of thread t normalizes its text; normalize itself returns here
ConcNormalize(t) ==
    /\ thread[t].pc = "called"
    /\ \/ pc = "concurrent"
       \/ \A u \in Threads \ {t} : thread[u].pc \in {"called", "measured"}
    /\ \E n \in {normalize(thread[t].query)} :
          IF thread[t].func = "TextNormalizer.normalize"
          THEN ConcReturn(t, n, tables)
          ELSE /\ thread' = [thread EXCEPT ![t].text = strip(lower(n)),
                                           ![t].pc = "normalized"]
               /\ UNCHANGED tables
    /\ UNCHANGED <<variable, nlp, pc, endpoint, query, text, idx, match,
                   operation, result, by, calls, response, renorm>>

\* PatternMatcher.parse of thread t scans the rules and returns
ConcScan(t) ==
    /\ thread[t].pc = "normalized"
    /\ thread[t].func = "PatternMatcher.parse"
    /\ ConcReturn(t, PatternScan(thread[t].text), tables)
    /\ UNCHANGED <<variable, nlp, pc, endpoint, query, text, idx, match,
                   operation, result, by, calls, response, renorm>>

\* NLPProcessor.parse of thread t extracts the operation
ConcClassify(t) ==
    /\ thread[t].pc = "normalized"
    /\ thread[t].func = "NLPProcessor.parse"
    /\ thread' = [thread EXCEPT ![t].operation = _extract_operation(thread[t].text),
                                ![t].pc = "classified"]
    /\ UNCHANGED <<tables, variable, nlp, pc, endpoint, query, text, idx, match,
                   operation, result, by, calls, response, renorm>>

\* a limit sub-parser that appends the limit variable to remove_words, which
\* is self.filler_words itself
ConcSubParseAppend(t) ==
    /\ thread[t].pc = "classified"
    /\ ConcReturn(t, SubParser(thread[t].operation, thread[t].text),
                  IF thread[t].operation = "limit" /\ SearchApproach(thread[t].text).found
                  THEN [tables EXCEPT !.filler_words =
                            Append(@, SearchApproach(thread[t].text).g[1])]
                  ELSE tables)
    /\ UNCHANGED <<variable, nlp, pc, endpoint, query, text, idx, match,
                   operation, result, by, calls, response, renorm>>

\* NLPProcessor.parse of thread t calls the sub-parser of the operation and
\* returns what it returns.  _parse_limit_nlp binds remove_words to
\* self.filler_words itself, the other sub-parsers to a new list; none of them
\* writes to remove_words.
ConcSubParse(t) ==
    /\ thread[t].pc = "classified"
    /\ ConcReturn(t, SubParser(thread[t].operation, thread[t].text), tables)
    /\ UNCHANGED <<variable, nlp, pc, endpoint, query, text, idx, match,
                   operation, result, by, calls, response, renorm>>

NextConc ==
    \/ ConcTogether
    \/ \E t \in Threads :
        \/ ConcNormalize(t)
        \/ ConcScan(t)
        \/ ConcClassify(t)
        \/ ConcSubParse(t)

SpecConc == InitConc /\ [][NextConc]_vars

-----------------------------------------------------------------------------
(* _extract_variable on its own.  A text is at most MaxVarLen phrases: the   *)
(* four cues, single letters inside and outside the preferred list, a filler *)
(* letter, and words with and without a letter of their own.                 *)

InitVar ==
    /\ nlp = TRUE
    /\ pc = "var_call"
    /\ endpoint = ""
    /\ LET phrases == {<<"with", "respect", "to", "y">>, <<"wrt", "z">>,
                       <<"w.r.t.", "t">>, <<"w.r.t.">>, <<"dx">>, <<"add">>,
                       <<"k">>, <<"q">>, <<"i">>, <<"the">>, <<"integrate">>}
           texts[n \in 0..MaxVarLen] ==
               IF n = 0 THEN {<<>>}
               ELSE texts[n - 1] \cup {s \o ph : s \in texts[n - 1], ph \in phrases}
       IN  query \in texts[MaxVarLen]
    /\ text = <<>>
    /\ idx = 0
    /\ match = NoMatch
    /\ operation = ""
    /\ result = None
    /\ by = NoBy
    /\ calls = <<>>
    /\ response = NoResponse
    /\ renorm = <<>>
    /\ tables = NoWrites
    /\ thread = <<>>
    /\ variable = ""

\* var = self._extract_variable(text)
ExtractVariable ==
    /\ pc = "var_call"
    /\ variable' = _extract_variable(query)
    /\ pc' = "var_return"
    /\ UNCHANGED <<tables, thread, nlp, endpoint, query, text, idx, match, operation,
                   result, by, calls, response, renorm>>

SpecVar == InitVar /\ [][ExtractVariable]_vars

-----------------------------------------------------------------------------
(* The claims *)

IsResult(r) == r \notin {None, Raised}

Complete(r) == DOMAIN r = {"latex", "plain_text", "method_used", "confidence"}

\* the expression words X are parseable: the pattern tier's preprocessing and
\* sympify accept them
Parseable(X) == sympify(_preprocess_expression(SpellAll(X)))

\* C1: on /parse the pattern tier is called first for every non-empty input;
\* a pattern result is the response and the heuristic tier is then not called;
\* the heuristic tier is called only after the pattern tier returned none and
\* its result, if any, is the response; with no result from either the
\* response is 422.
C1_TierOrder ==
    endpoint = "parse" =>
      /\ calls \in {<<>>, <<"pattern_matcher.parse">>,
                    <<"pattern_matcher.parse", "nlp_processor.parse">>}
      /\ (pc \in {"nlp_parse", "nlp_dispatch"} => Len(calls) = 2 /\ result = None)
      /\ (pc = "done" =>
            /\ response.status \in {200, 400, 422}
            /\ (response.status = 400) = (strip(query) = <<>>)
            /\ (response.status = 400 => calls = <<>>)
            /\ (response.status = 200 =>
                  /\ response.body = result
                  /\ IsResult(result)
                  /\ result.method_used =
                       (IF Len(calls) = 1 THEN "pattern_matching" ELSE "nlp"))
            /\ (response.status = 422 => Len(calls) = 2 /\ result = None))

\* a /parse request answered by the heuristic tier after the pattern tier
\* returned none
C1_Witness ==
    /\ endpoint = "parse" /\ pc = "done"
    /\ response.status = 200
    /\ calls = <<"pattern_matcher.parse", "nlp_processor.parse">>

\* the normalized text reads "partial derivative of X with respect to V"
PartialDerivativeOf(t) ==
    /\ Len(t) >= 8
    /\ SubSeq(t, 1, 3) = <<"partial", "derivative", "of">>
    /\ SubSeq(t, Len(t) - 3, Len(t) - 1) = WithRespectTo
    /\ IsLetterToken(t[Len(t)])

\* C2: an input "partial derivative of X with respect to V" with X parseable
\* is resolved by the pattern tier through the specific partial-derivative
\* rule (rule 9: partial template, confidence 0.85), not by a derivative rule
\* nor by the loose partial rule.
C2_PartialBySpecificRule ==
    (/\ pc = "pm_return"
     /\ PartialDerivativeOf(text)
     /\ Parseable(SubSeq(text, 4, Len(text) - 4)))
    => /\ IsResult(result)
       /\ by = [rule |-> 9, handler |-> "_handle_partial"]
       /\ result.confidence = 85
       /\ result.latex[1] = "\\frac{\\partial}{\\partial "

\* the regex of a rule before the fraction rule matches the text
SpecificRuleMatches(t) == \E k \in 1..(NumPatterns - 1) : Search(k, t).found

\* C3 as stated: for an input that matches the regex of an integral,
\* derivative, partial-derivative, summation, product or limit rule the
\* pattern tier's result is never a Fraction result.
C3_NeverFractionWhenSpecificMatches ==
    (pc = "pm_return" /\ IsResult(result) /\ SpecificRuleMatches(text))
    => by.handler # "_handle_fraction"

\* C3 amended: the fraction rule is the last rule, and a Fraction result is
\* returned only when the handler of every specific rule whose regex matches
\* the text has failed.
C3_FractionOnlyAfterFailures ==
    (pc = "pm_return" /\ IsResult(result) /\ by.handler = "_handle_fraction")
    => /\ by.rule = NumPatterns
       /\ result.confidence = 80
       /\ \A k \in 1..(NumPatterns - 1) :
            Search(k, text).found => ~IsResult(Handle(k, Search(k, text)))

\* a Fraction result for a text that a specific rule's regex matches
C3_Witness ==
    /\ pc = "pm_return"
    /\ IsResult(result)
    /\ by.handler = "_handle_fraction"
    /\ SpecificRuleMatches(text)

Counterpart(h, t) ==
    CASE h = "_handle_integral"         -> _parse_integral_nlp(t)
      [] h = "_handle_derivative"       -> _parse_derivative_nlp(t)
      [] h = "_handle_derivative_short" -> _parse_derivative_nlp(t)
      [] h = "_handle_partial"          -> _parse_partial_derivative_nlp(t)
      [] h = "_handle_summation"        -> _parse_summation_nlp(t)
      [] h = "_handle_product"          -> _parse_product_nlp(t)
      [] h = "_handle_limit"            -> _parse_limit_nlp(t)
      [] OTHER                          -> None

\* C6: when the pattern tier returns a result of an operation kind, the
\* heuristic sub-parser of that kind, applied to the same text, returns
\* nothing of higher confidence.
C6_ConfidenceOrdering ==
    (pc = "pm_return" /\ IsResult(result))
    => \A n \in {Counterpart(by.handler, text)} :
         IsResult(n) => result.confidence >= n.confidence

\* a pattern-tier partial-derivative result whose text the heuristic
\* partial-derivative sub-parser resolves too
C6_Witness ==
    /\ pc = "pm_return"
    /\ IsResult(result)
    /\ by.handler = "_handle_partial"
    /\ IsResult(_parse_partial_derivative_nlp(text))

\* C7: an empty or whitespace-only input never yields a result: /parse
\* rejects it before calling a tier, and each tier called directly returns none.
C7_EmptyInput ==
    strip(query) = <<>> =>
      /\ (pc \in {"pm_return", "nlp_return"} => result = None)
      /\ response.status # 200
      /\ (endpoint = "parse" => calls = <<>> /\ response.status \in {0, 400})
      /\ (pc = "done" /\ endpoint # "parse" => response.status = 422)

\* the whitespace-only text went through the heuristic tier
C7_Witness ==
    /\ query = <<WS>>
    /\ endpoint = "nlp_only"
    /\ nlp
    /\ pc = "done"
    /\ by.handler = "_parse_simple_expression"

\* C8: the input "d/dV of X" (V a letter, x included; X parseable) is resolved
\* by the pattern tier through the short-form rule: derivative template,
\* method_used = pattern_matching, confidence 0.85.
C8_ShortFormDerivative ==
    (/\ pc = "pm_return"
     /\ Len(query) >= 3
     /\ query[1] \in {"d/dx", "d/dy"}
     /\ query[2] = "of"
     /\ Parseable(SubSeq(query, 3, Len(query))))
    => /\ IsResult(result)
       /\ by.handler = "_handle_derivative_short"
       /\ result.method_used = "pattern_matching"
       /\ result.confidence = 85

\* the first keyword of the table `order` that occurs in the text: its kind
FirstKeyword(order, t) ==
    LET hit == {k \in 1..Len(order) : InText(t, order[k][1])}
    IN  IF hit = {} THEN "" ELSE order[Min(hit)][2]

\* C9 as stated: the operation is that of the first keyword found, in the
\* order Integral, Derivative, PartialDerivative, Summation, Product, Limit.
C9_PartialBeforeSummation ==
    pc = "nlp_dispatch" =>
      operation = FirstKeyword(<<
          <<"integrate", "integral">>, <<"integration", "integral">>,
          <<"integral", "integral">>, <<"derivative", "derivative">>,
          <<"differentiate", "derivative">>, <<"diff", "derivative">>,
          <<"derive", "derivative">>, <<"partial", "partial_derivative">>,
          <<"sum", "summation">>, <<"summation", "summation">>,
          <<"sigma", "summation">>, <<"product", "product">>,
          <<"limit", "limit">>, <<"lim", "limit">> >>, text)

\* C9 amended: the operation is that of the first keyword found, in the
\* order Integral, Derivative, Summation, Product, Limit, PartialDerivative:
\* 'partial' decides only when no other keyword occurs in the text; with no
\* keyword the simple-expression sub-parser is used.
C9_PartialLast ==
    pc = "nlp_dispatch" =>
      operation = FirstKeyword(<<
          <<"integrate", "integral">>, <<"integration", "integral">>,
          <<"integral", "integral">>, <<"derivative", "derivative">>,
          <<"differentiate", "derivative">>, <<"diff", "derivative">>,
          <<"derive", "derivative">>, <<"sum", "summation">>,
          <<"summation", "summation">>, <<"sigma", "summation">>,
          <<"product", "product">>, <<"limit", "limit">>, <<"lim", "limit">>,
          <<"partial", "partial_derivative">> >>, text)

\* a text with 'partial' and 'sum' is classified as a summation
C9_Witness ==
    /\ pc = "nlp_dispatch"
    /\ InText(text, "partial")
    /\ InText(text, "sum")
    /\ operation = "summation"

\* C10: normalize(normalize(t)) = normalize(t)
C10_NormalizeIdempotent ==
    pc = "renormalized" => renorm = text

\* a text that the first normalization rewrote and the second left alone
C10_Witness ==
    /\ pc = "renormalized"
    /\ Len(text) > Len(query)
    /\ renorm = text

\* C11: no call of PatternMatcher.parse, NLPProcessor.parse or
\* TextNormalizer.normalize writes to a table built at construction, and in
\* every interleaving of two concurrent calls each call returns what it
\* returns when it runs alone.
C11_CallsIndependent ==
    /\ tables = NoWrites
    /\ \A t \in Threads :
          thread[t].pc = "returned" => thread[t].result = thread[t].alone

\* two calls of NLPProcessor.parse interleave: the second has returned its
\* result while the first, a limit, is between classifying and sub-parsing
C11_Witness ==
    /\ pc = "concurrent"
    /\ thread["first"].func = "NLPProcessor.parse"
    /\ thread["first"].operation = "limit"
    /\ thread["first"].pc = "classified"
    /\ thread["second"].func = "NLPProcessor.parse"
    /\ thread["second"].query = <<"x", "plus", "y">>
    /\ thread["second"].pc = "returned"
    /\ thread["second"].result \notin {None, Raised}

\* C12: on /parse, when the pattern tier returned none and the normalized text
\* contains no operation keyword, a result is the one of
\* _parse_simple_expression, with method_used = nlp and confidence 0.6.
C12_SimpleExpressionFallback ==
    (/\ pc = "done"
     /\ endpoint = "parse"
     /\ Len(calls) = 2
     /\ response.status = 200
     /\ \A k \in 1..Len(math_operations) : ~InText(text, math_operations[k][1]))
    => /\ by = [rule |-> 0, handler |-> "_parse_simple_expression"]
       /\ response.body.method_used = "nlp"
       /\ response.body.confidence = 60

\* "x plus y": no rule, no keyword, answered by the simple-expression parser
C12_Witness ==
    /\ pc = "done"
    /\ endpoint = "parse"
    /\ query = <<"x", "plus", "y">>
    /\ calls = <<"pattern_matcher.parse", "nlp_processor.parse">>
    /\ operation = ""
    /\ response.status = 200
    /\ response.body.latex = <<"x + y">>
    /\ by.handler = "_parse_simple_expression"

\* C13: the pattern tier tries the rules strictly in table order; a rule whose
\* regex matches and whose handler raises or returns none does not end the
\* scan, which goes on with the following rules; the result returned is that
\* of the lowest-index rule whose regex matches and whose handler succeeds,
\* and no rule after it is evaluated; none is returned only when every rule
\* did not match or failed.
C13_FirstSuccessfulHandler ==
    /\ [](pc = "pm_return" =>
            LET first(results) ==
                  IF IsResult(result)
                  THEN /\ idx \in 1..NumPatterns
                       /\ by.rule = idx
                       /\ result = results[idx]
                       /\ \A k \in 1..(idx - 1) : ~IsResult(results[k])
                  ELSE /\ result = None
                       /\ idx = NumPatterns + 1
                       /\ \A k \in 1..NumPatterns : ~IsResult(results[k])
            IN  first([k \in 1..NumPatterns |->
                         IF Search(k, text).found THEN Handle(k, Search(k, text))
                         ELSE None]))
    /\ [][/\ (pc = "pm_loop" /\ pc' = "pm_loop") =>
               IF match.found
               THEN idx' = idx /\ ~match'.found
               ELSE /\ idx' > idx
                    /\ idx' <= NumPatterns + 1
                    /\ \A k \in (idx + 1)..(idx' - 1) : ~Search(k, text).found
                    /\ match'.found = (idx' <= NumPatterns)
                    /\ match'.found => match' = Search(idx', text)
          /\ (pc = "pm_loop" /\ pc' # "pm_loop") =>
               /\ pc' = "pm_return"
               /\ idx' = idx
               /\ IsResult(result') = match.found
          /\ pc \notin {"pm_parse", "pm_loop", "done"} => idx' = idx]_vars

\* the pattern tier returns the result of a rule after an earlier rule, whose
\* regex matched, failed in its handler
C13_Witness ==
    /\ pc = "pm_return"
    /\ IsResult(result)
    /\ \E k \in 1..(by.rule - 1) : Search(k, text).found

\* C14: when the text is classified summation or product and does not contain
\* "(from|of) V (equals|=) START to END", or is classified limit and does not
\* contain "(lim|limit|as) V (approaches|goes to|tends to|->) TARGET (of)?
\* EXPR", the heuristic tier returns none: no result and no error.
C14_PreconditionMissIsNone ==
    LET miss == \/ operation \in {"summation", "product"} /\ ~SearchFromTo(text).found
                \/ operation = "limit" /\ ~SearchApproach(text).found
    IN  /\ (pc = "nlp_return" /\ miss) => result = None
        /\ (pc = "done" /\ miss) => response = [status |-> 422, body |-> None]

\* "partial limit ..." is classified limit, has no "V approaches TARGET", and
\* is answered 422
C14_Witness ==
    /\ pc = "done"
    /\ operation = "limit"
    /\ query[1] = "partial"
    /\ ~SearchApproach(text).found
    /\ by.handler = "_parse_limit_nlp"
    /\ response.status = 422

\* C17: when an operation keyword is found, exactly the sub-parser of the
\* classified kind is called and what it returns is what the heuristic tier
\* returns: if it fails the tier returns none and _parse_simple_expression is
\* not tried; _parse_simple_expression is called only when no keyword is
\* present.
C17_NoFallbackInHeuristicTier ==
    (pc = "nlp_return" /\ nlp) =>
      /\ by.rule = 0
      /\ by.handler =
           (CASE operation = "integral"           -> "_parse_integral_nlp"
              [] operation = "derivative"         -> "_parse_derivative_nlp"
              [] operation = "partial_derivative" -> "_parse_partial_derivative_nlp"
              [] operation = "summation"          -> "_parse_summation_nlp"
              [] operation = "product"            -> "_parse_product_nlp"
              [] operation = "limit"              -> "_parse_limit_nlp"
              [] operation = ""                   -> "_parse_simple_expression")
      /\ (operation = "") =
           (\A k \in 1..Len(math_operations) : ~InText(text, math_operations[k][1]))
      /\ result = SubParser(operation, text)
      /\ IsResult(result) =>
           result.confidence =
             (CASE operation \in {"integral", "derivative", "limit"} -> 70
                [] operation \in {"partial_derivative", "summation", "product"} -> 65
                [] operation = "" -> 60)

\* "d/dx of" becomes "derivative of": _parse_derivative_nlp is left with an
\* empty expression and the tier returns none, although
\* _parse_simple_expression would have parsed the text
C17_Witness ==
    /\ pc = "nlp_return"
    /\ nlp
    /\ operation = "derivative"
    /\ by.handler = "_parse_derivative_nlp"
    /\ result = None
    /\ IsResult(_parse_simple_expression(text))

\* C18: when the language model failed to load (self.nlp is None),
\* NLPProcessor.parse returns none for every input without classifying or
\* parsing: the outcome of /parse is that of the pattern tier alone and no
\* result with method_used = nlp is returned.
C18_NoModelNoHeuristicResult ==
    ~nlp =>
      /\ pc # "nlp_dispatch"
      /\ operation = ""
      /\ by.handler \notin {"_parse_integral_nlp", "_parse_derivative_nlp",
                            "_parse_partial_derivative_nlp", "_parse_summation_nlp",
                            "_parse_product_nlp", "_parse_limit_nlp",
                            "_parse_simple_expression"}
      /\ pc = "nlp_return" => result = None
      /\ IsResult(result) => result.method_used = "pattern_matching"
      /\ pc = "done" =>
           /\ response.status = 200 =>
                /\ response.body.method_used = "pattern_matching"
                /\ calls = <<"pattern_matcher.parse">>
           /\ endpoint = "nlp_only" => response = [status |-> 422, body |-> None]
           /\ (endpoint = "parse" /\ Len(calls) = 2) =>
                response = [status |-> 422, body |-> None]

\* without the language model "x plus y", which the heuristic tier parses when
\* the model is loaded, is answered 422 on /parse
C18_Witness ==
    /\ ~nlp
    /\ pc = "done"
    /\ endpoint = "parse"
    /\ query = <<"x", "plus", "y">>
    /\ calls = <<"pattern_matcher.parse", "nlp_processor.parse">>
    /\ response.status = 422

\* C15: _extract_variable returns the letter captured by the first cue that
\* matches, in the order "with respect to V", "wrt V", "w.r.t. V", "dV"; with
\* no cue, the first of x, y, z, t, n, i, j, k found among the single letters
\* of the text that are not filler words; else the first valid single letter;
\* else 'x'.  The result is always exactly one letter.
C15_ExtractVariablePriority ==
    pc = "var_return" =>
      LET follows(words) ==
              {p \in 1..(Len(query) - Len(words)) :
                 /\ SubSeq(query, p, p + Len(words) - 1) = words
                 /\ IsLetter(FirstChar(query[p + Len(words)]))}
          captured(words) == FirstChar(query[Min(follows(words)) + Len(words)])
          dV == {p \in 1..Len(query) : DLetterEnd(query[p]) # ""}
          valid == SelectSeq(Flat([p \in 1..Len(query) |-> LoneLetters(query[p])]),
                             LAMBDA l : l \notin Range(filler_words))
          order == <<"x", "y", "z", "t", "n", "i", "j", "k">>
          inOrder == {n \in 1..Len(order) : \E p \in 1..Len(valid) : valid[p] = order[n]}
      IN  /\ Len(variable) = 1
          /\ IsLetter(variable)
          /\ variable =
               (CASE follows(<<"with", "respect", "to">>) # {} ->
                       captured(<<"with", "respect", "to">>)
                  [] /\ follows(<<"with", "respect", "to">>) = {}
                     /\ follows(<<"wrt">>) # {} -> captured(<<"wrt">>)
                  [] /\ follows(<<"with", "respect", "to">>) = {}
                     /\ follows(<<"wrt">>) = {}
                     /\ follows(<<"w.r.t.">>) # {} -> captured(<<"w.r.t.">>)
                  [] /\ follows(<<"with", "respect", "to">>) = {}
                     /\ follows(<<"wrt">>) = {}
                     /\ follows(<<"w.r.t.">>) = {}
                     /\ dV # {} -> DLetterEnd(query[Min(dV)])
                  [] OTHER -> IF inOrder # {} THEN order[Min(inOrder)]
                              ELSE IF valid # <<>> THEN valid[1]
                              ELSE "x")

\* "q k": no cue, and k, the only preferred letter, is returned although q
\* stands first
C15_Witness ==
    /\ pc = "var_return"
    /\ query = <<"q", "k">>
    /\ variable = "k"

\* C16: every request that is received reaches its final outcome; on the way
\* each tier is called at most once, the rule scan only moves forward, so that
\* each rule is evaluated at most once, no stage of the dispatch is entered a
\* second time, and the pattern tier is not entered after the heuristic tier
\* has been called.
C16_DispatchTerminates ==
    /\ pc = "endpoint" ~> pc = "done"
    /\ [](/\ Len(calls) <= 2
          /\ \A i, j \in 1..Len(calls) : calls[i] = calls[j] => i = j
          /\ idx \in 0..(NumPatterns + 1))
    /\ [][LET stage(p) ==
                CASE p = "idle" -> 0
                  [] p = "endpoint" -> 1
                  [] p = "pm_parse" -> 2
                  [] p = "pm_loop" -> 3
                  [] p = "pm_return" -> 4
                  [] p = "nlp_parse" -> 5
                  [] p = "nlp_dispatch" -> 6
                  [] p = "nlp_return" -> 7
                  [] p = "done" -> 8
          IN  /\ pc' # "idle" =>
                   /\ stage(pc') >= stage(pc)
                   /\ idx' >= idx
                   /\ stage(pc') = stage(pc) =>
                        /\ pc = "pm_loop"
                        /\ (idx' > idx) = (~match.found)
                        /\ match.found => ~match'.found
              /\ (\E i \in 1..Len(calls) : calls[i] = "nlp_processor.parse") =>
                   pc' \notin {"pm_parse", "pm_loop", "pm_return"}]_vars

\* a /parse request that went through all the rules and then through the
\* heuristic tier has its final outcome
C16_Witness ==
    /\ pc = "done"
    /\ endpoint = "parse"
    /\ idx = NumPatterns + 1
    /\ calls = <<"pattern_matcher.parse", "nlp_processor.parse">>
    /\ by.handler = "_parse_integral_nlp"
    /\ response.status = 422

====
